---- MODULE Spec2Model ----
(***************************************************************************)
(* Job orchestration and timeout enforcement of the Privestate agent:      *)
(* TimeoutManager (agent/index.ts), runJob and its attempt loop            *)
(* (agent/src/jobRunner.ts), the attestation client                        *)
(* (agent/src/selfAttestation.ts), the compute client and the error        *)
(* catalog (triggerC2D.ts / attestationErrors.ts, src/unnamed/part_007).   *)
(*                                                                         *)
(* Time is in milliseconds, as in the source.  One action is one           *)
(* macrotask of the event loop (a timer callback or the completion of an   *)
(* I/O request) together with every microtask continuation it triggers.    *)
(***************************************************************************)
EXTENDS Integers, Sequences, FiniteSets, TLC

(***************************************************************************)
(* Program constants                                                       *)
(***************************************************************************)
maxRetries == 3
retryDelayMs == 2000
retryableErrorCategories == {"verification", "authentication"}
defaultJobTimeoutMs == 300000
defaultAttestationTimeoutMs == 120000
defaultC2dTimeoutMs == 240000
cleanupReserveMs == 60000
defaultC2DServiceTimeoutMs == 300000
defaultPollIntervalMs == 5000

(***************************************************************************)
(* Bounds of the model: the latencies a collaborator or the file system    *)
(* may take to answer one request, and the job budgets a caller passes.    *)
(***************************************************************************)
FastLatencyMs == 1000
SlowLatencyMs == 130000
BriefBudgetMs == 1500
TinyBudgetMs == 2500
ShortBudgetMs == 30000
\* How many non-terminal statuses the compute collaborator reports per poll.
MaxPending == 2
\* How often the caller of a standalone TimeoutManager cancels everything.
MaxCancels == 2

Latencies == {FastLatencyMs, SlowLatencyMs}
\* Only the attestation collaborator and the status endpoint of the compute
\* collaborator answer slowly; the recorder and the other compute requests
\* always answer promptly.
SlowEndpoints == {"attestation", "status"}
Latency(endpoint, lat) == IF endpoint \in SlowEndpoints THEN lat ELSE FastLatencyMs
\* config.timeoutMs as passed to runJob.
JobTimeouts == {BriefBudgetMs, TinyBudgetMs, ShortBudgetMs, defaultJobTimeoutMs}

(***************************************************************************)
(* ErrorCatalog                                                            *)
(***************************************************************************)
\* A thrown value that is not an AttestationException (a plain Error).
PlainError == "Error"
NoError == "none"

ATTESTATION_ERROR_CATALOG ==
  [ ATTESTATION_SERVICE_UNAVAILABLE |-> [retryable |-> TRUE,  category |-> "authentication"],
    INVALID_DID                     |-> [retryable |-> FALSE, category |-> "authentication"],
    EXPIRED_PROOF                   |-> [retryable |-> TRUE,  category |-> "verification"],
    INVALID_SIGNATURE               |-> [retryable |-> TRUE,  category |-> "verification"],
    AGE_VERIFICATION_FAILED         |-> [retryable |-> TRUE,  category |-> "verification"],
    UNDER_MINIMUM_AGE               |-> [retryable |-> FALSE, category |-> "authorization"],
    AGE_PROOF_MISSING               |-> [retryable |-> TRUE,  category |-> "verification"],
    RESIDENCY_VERIFICATION_FAILED   |-> [retryable |-> TRUE,  category |-> "verification"],
    COUNTRY_NOT_ALLOWED             |-> [retryable |-> FALSE, category |-> "authorization"],
    COUNTRY_BLOCKED                 |-> [retryable |-> FALSE, category |-> "authorization"],
    RESIDENCY_PROOF_MISSING         |-> [retryable |-> TRUE,  category |-> "verification"],
    ROLE_VERIFICATION_FAILED        |-> [retryable |-> TRUE,  category |-> "verification"],
    INSUFFICIENT_ROLE_LEVEL         |-> [retryable |-> TRUE,  category |-> "authorization"],
    INVALID_PROFESSIONAL_ROLE       |-> [retryable |-> TRUE,  category |-> "authorization"],
    ROLE_PROOF_MISSING              |-> [retryable |-> TRUE,  category |-> "verification"],
    IDENTITY_VERIFICATION_FAILED    |-> [retryable |-> TRUE,  category |-> "verification"],
    NOT_HUMAN_VERIFIED              |-> [retryable |-> TRUE,  category |-> "verification"],
    DUPLICATE_IDENTITY              |-> [retryable |-> FALSE, category |-> "authorization"],
    HIGH_RISK_SCORE                 |-> [retryable |-> TRUE,  category |-> "verification"],
    IDENTITY_PROOF_MISSING          |-> [retryable |-> TRUE,  category |-> "verification"],
    MISSING_API_KEY                 |-> [retryable |-> FALSE, category |-> "configuration"],
    INVALID_CONFIGURATION           |-> [retryable |-> FALSE, category |-> "configuration"],
    UNSUPPORTED_ATTESTATION_TYPE    |-> [retryable |-> FALSE, category |-> "configuration"],
    JOB_TIMEOUT                     |-> [retryable |-> TRUE,  category |-> "configuration"],
    ATTESTATION_TIMEOUT             |-> [retryable |-> TRUE,  category |-> "verification"],
    C2D_TIMEOUT                     |-> [retryable |-> TRUE,  category |-> "configuration"],
    OPERATION_CANCELLED             |-> [retryable |-> TRUE,  category |-> "configuration"] ]

AttestationErrorCode == DOMAIN ATTESTATION_ERROR_CATALOG

\* error instanceof AttestationException
IsAttestationException(e) == e \in AttestationErrorCode

\* createAttestationError(code): the exception carries the catalog record of code.
createAttestationError(code) == code

ErrRetryable(e) == ATTESTATION_ERROR_CATALOG[e].retryable
ErrCategory(e) == ATTESTATION_ERROR_CATALOG[e].category

(***************************************************************************)
(* TimeoutManager                                                          *)
(***************************************************************************)

\* new TimeoutManager({jobTimeoutMs: J, enableTimeoutLogging: true})
TimeoutConfig(jobTimeoutMs) ==
  [ jobTimeoutMs         |-> IF jobTimeoutMs # 0 THEN jobTimeoutMs ELSE defaultJobTimeoutMs,
    attestationTimeoutMs |-> defaultAttestationTimeoutMs,
    c2dTimeoutMs         |-> defaultC2dTimeoutMs ]

getDefaultTimeout(config, operationType) ==
  CASE operationType = "attestation"   -> config.attestationTimeoutMs
    [] operationType = "c2d-execution" -> config.c2dTimeoutMs
    [] operationType = "job-execution" -> config.jobTimeoutMs
    [] OTHER                           -> config.jobTimeoutMs

createTimeoutError(operationType) ==
  CASE operationType = "attestation"   -> createAttestationError("ATTESTATION_TIMEOUT")
    [] operationType = "c2d-execution" -> createAttestationError("C2D_TIMEOUT")
    [] operationType = "job-execution" -> createAttestationError("JOB_TIMEOUT")
    [] OTHER                           -> createAttestationError("OPERATION_CANCELLED")

\* The values operations produce: an AttestationResult, a C2DJobStatus, or the
\* JobResult of executeJobAttempt that bundles both.
AttestationValue(isValid) == [kind |-> "attestation", isValid |-> isValid, status |-> "none"]
C2DValue(status) == [kind |-> "c2d", isValid |-> FALSE, status |-> status]
JobValue(attestationResult, c2dJobStatus) ==
  [kind |-> "job", isValid |-> attestationResult.isValid, status |-> c2dJobStatus.status]
NoOpValue == [kind |-> "none", isValid |-> FALSE, status |-> "none"]

\* TimeoutResult<T>
NoResult ==
  [ success |-> FALSE, result |-> NoOpValue, error |-> NoError,
    duration |-> 0, timedOut |-> FALSE, cancelled |-> FALSE ]

\* How the promise of a guarded operation settled, and whether its signal was
\* aborted at that moment.
PendingOp == [outcome |-> "pending", value |-> NoOpValue, error |-> NoError, aborted |-> FALSE]

\* One invocation of executeWithTimeout: its AbortController, its timer, its
\* entry in activeOperations / operationMetadata, the promise of its operation
\* and what it returned.
IdleCall ==
  [ st |-> "idle", type |-> "none", wrapper |-> "none", start |-> 0,
    timeoutMs |-> 0, timer |-> "none", aborted |-> FALSE, registered |-> FALSE,
    op |-> PendingOp, res |-> NoResult, wres |-> NoResult, retAt |-> 0 ]

\* executeWithTimeout up to the start of the race: the effective timeout, the
\* fresh AbortController, the registry entry and the timer.
EwtStart(config, operationType, wrapper, timeoutMs, t) ==
  [ st |-> "active", type |-> operationType, wrapper |-> wrapper, start |-> t,
    timeoutMs |-> IF timeoutMs # 0 THEN timeoutMs
                  ELSE getDefaultTimeout(config, operationType),
    timer |-> "pending", aborted |-> FALSE, registered |-> TRUE,
    op |-> PendingOp, res |-> NoResult, wres |-> NoResult, retAt |-> 0 ]

Deadline(c) == c.start + c.timeoutMs

\* Variant: the success return loses the operation's value.
EwtSuccessResultDropped(c, value, t) ==
  [ success |-> TRUE, result |-> NoOpValue, error |-> NoError,
    duration |-> t - c.start, timedOut |-> FALSE, cancelled |-> FALSE ]

\* The success return of executeWithTimeout.
EwtSuccessResult(c, value, t) ==
  [ success |-> TRUE, result |-> value, error |-> NoError,
    duration |-> t - c.start, timedOut |-> FALSE, cancelled |-> FALSE ]

\* Variant: the catch block never consults the signal.
EwtCatchResultUnclassified(c, error, t) ==
  [ success |-> FALSE, result |-> NoOpValue,
    error |-> IF IsAttestationException(error) THEN error
              ELSE createAttestationError("OPERATION_CANCELLED"),
    duration |-> t - c.start, timedOut |-> FALSE, cancelled |-> FALSE ]

\* Variant: the catch block returns a failure without its error.
EwtCatchResultNoError(c, error, t) ==
  [ success |-> FALSE, result |-> NoOpValue, error |-> NoError,
    duration |-> t - c.start, timedOut |-> c.aborted, cancelled |-> c.aborted ]

\* The catch block of executeWithTimeout.
EwtCatchResult(c, error, t) ==
  IF c.aborted
  THEN [ success |-> FALSE, result |-> NoOpValue,
         error |-> IF IsAttestationException(error) THEN error
                   ELSE createAttestationError("OPERATION_CANCELLED"),
         duration |-> t - c.start, timedOut |-> TRUE, cancelled |-> TRUE ]
  ELSE [ success |-> FALSE, result |-> NoOpValue,
         error |-> IF IsAttestationException(error) THEN error
                   ELSE createAttestationError("OPERATION_CANCELLED"),
         duration |-> t - c.start, timedOut |-> FALSE, cancelled |-> FALSE ]

\* executeJob / executeAttestation / executeC2D: re-tag a timed-out result.
WrapperTimeoutCode(wrapper) ==
  CASE wrapper = "executeJob"         -> "JOB_TIMEOUT"
    [] wrapper = "executeAttestation" -> "ATTESTATION_TIMEOUT"
    [] wrapper = "executeC2D"         -> "C2D_TIMEOUT"

\* Variant: the wrappers return what executeWithTimeout produced.
WrapperResultUntagged(wrapper, res) == res

WrapperResult(wrapper, res) ==
  IF wrapper # "none" /\ res.timedOut
  THEN [res EXCEPT !.error = createAttestationError(WrapperTimeoutCode(wrapper))]
  ELSE res

\* Variant: executeWithTimeout returns without its finally block.
EwtReturnUnreleased(c, res, t) ==
  [c EXCEPT !.st = "returned", !.res = res,
            !.wres = WrapperResult(c.wrapper, res), !.retAt = t]

\* The return of executeWithTimeout (try or catch, then finally: cleanupOperation).
\* The timer is not cleared here: only the abort listener clears it.
EwtReturn(c, res, t) ==
  [c EXCEPT !.st = "returned", !.registered = FALSE, !.res = res,
            !.wres = WrapperResult(c.wrapper, res), !.retAt = t]

\* The promise returned by operation(signal) settles.
OpSettles(c, outcome, value, error) ==
  [c EXCEPT !.op = [outcome |-> outcome, value |-> value, error |-> error,
                    aborted |-> c.aborted]]

\* The race of line 756 as seen when the operation's promise settles: the call
\* returns through the try or the catch block if it has not returned yet.
EwtAfterOp(c, outcome, value, error, t) ==
  LET c1 == OpSettles(c, outcome, value, error)
  IN  IF c.st = "active"
      THEN EwtReturn(c1, IF outcome = "resolved" THEN EwtSuccessResult(c1, value, t)
                         ELSE EwtCatchResult(c1, error, t), t)
      ELSE c1

\* abortController.abort(): sets the signal; the listener of line 750 clears the
\* timer if it is still pending.  A second abort() changes nothing.
AbortCall(c) ==
  IF c.aborted THEN c
  ELSE [c EXCEPT !.aborted = TRUE,
                 !.timer = IF c.timer = "pending" THEN "cleared" ELSE c.timer]

\* The setTimeout callback of line 744: abort(), then reject(timeout error).
TimerFired(c) == [c EXCEPT !.aborted = TRUE, !.timer = "fired"]

\* The race of line 756 as seen when the timer fires: the call returns through
\* the catch block if it has not returned yet.
EwtAfterTimer(c, t) ==
  LET fired == TimerFired(c)
  IN  IF c.st = "active"
      THEN EwtReturn(fired, EwtCatchResult(fired, createTimeoutError(fired.type), t), t)
      ELSE fired


(***************************************************************************)
(* Post-validation of an attestation (validateAttestationResult,           *)
(* SelfAttestationService.validateResult, determineErrorCodeFromFailures)  *)
(***************************************************************************)
\* An optional part of ProofCriteria or of VerifiedClaims carries a flag
\* "present"; an optional number that is undefined reads 0 (both are falsy).
NoCriteria ==
  [ requireAge |-> [present |-> FALSE, minimumAge |-> 0],
    requireResidency |-> [present |-> FALSE, allowedCountries |-> {}, blockedCountries |-> {}],
    requireRole |-> [present |-> FALSE, requiredRoles |-> {},
                     minimumVerificationLevel |-> "basic"],
    requireIdentity |-> [present |-> FALSE, requireHuman |-> FALSE, requireUnique |-> FALSE,
                         maxRiskScore |-> 0] ]

NoClaims ==
  [ age |-> [present |-> FALSE, isOver18 |-> FALSE, isOver21 |-> FALSE],
    residency |-> [present |-> FALSE, country |-> "none"],
    role |-> [present |-> FALSE, isRealEstateProfessional |-> FALSE,
              verificationLevel |-> "none"],
    identity |-> [present |-> FALSE, isHuman |-> FALSE, isUnique |-> FALSE, riskScore |-> 0] ]

\* attestationCriteria of executeAttestationStep.
attestationCriteria ==
  [ requireAge |-> [present |-> TRUE, minimumAge |-> 18],
    requireResidency |-> [present |-> TRUE, allowedCountries |-> {"US", "CA", "GB", "AU"},
                          blockedCountries |-> {"KP", "IR", "SY"}],
    requireRole |-> [present |-> TRUE,
                     requiredRoles |-> {"real_estate_professional", "data_analyst", "researcher"},
                     minimumVerificationLevel |-> "basic"],
    requireIdentity |-> [present |-> TRUE, requireHuman |-> TRUE, requireUnique |-> TRUE,
                         maxRiskScore |-> 30] ]

\* The failed checks, by their fixed text in lower case.
AgeChecks(result, criteria) ==
  IF ~criteria.requireAge.present THEN <<>>
  ELSE IF ~result.verifiedClaims.age.present THEN <<"age verification missing">>
  ELSE IF criteria.requireAge.minimumAge # 0 /\ ~result.verifiedClaims.age.isOver18
       THEN <<"minimum age requirement not met">>
       ELSE <<>>

ResidencyChecks(result, criteria) ==
  IF ~criteria.requireResidency.present THEN <<>>
  ELSE IF ~result.verifiedClaims.residency.present THEN <<"residency verification missing">>
  ELSE LET country == result.verifiedClaims.residency.country
           allowed == criteria.requireResidency.allowedCountries
       IN  (IF allowed # {} /\ country \notin allowed THEN <<"country not allowed">> ELSE <<>>)
           \o (IF country \in criteria.requireResidency.blockedCountries
               THEN <<"country blocked">> ELSE <<>>)

levelRanking(level) ==
  CASE level = "basic" -> 1
    [] level = "enhanced" -> 2
    [] level = "premium" -> 3
    [] OTHER -> 0

RoleChecks(result, criteria) ==
  IF ~criteria.requireRole.present THEN <<>>
  ELSE IF ~result.verifiedClaims.role.present THEN <<"professional role verification missing">>
  ELSE LET roleData == result.verifiedClaims.role
           userLevel == levelRanking(roleData.verificationLevel)
           ranked == levelRanking(criteria.requireRole.minimumVerificationLevel)
           requiredLevelRank == IF ranked # 0 THEN ranked ELSE 1
       IN  (IF /\ ~roleData.isRealEstateProfessional
               /\ "data_analyst" \notin criteria.requireRole.requiredRoles
               /\ "researcher" \notin criteria.requireRole.requiredRoles
            THEN <<"invalid professional role">> ELSE <<>>)
           \o (IF userLevel < requiredLevelRank
               THEN <<"insufficient verification level">> ELSE <<>>)

IdentityChecks(result, criteria) ==
  IF ~criteria.requireIdentity.present THEN <<>>
  ELSE IF ~result.verifiedClaims.identity.present THEN <<"identity verification missing">>
  ELSE LET identityData == result.verifiedClaims.identity
           maxRiskScore == IF criteria.requireIdentity.maxRiskScore # 0
                           THEN criteria.requireIdentity.maxRiskScore ELSE 30
       IN  (IF criteria.requireIdentity.requireHuman /\ ~identityData.isHuman
            THEN <<"human verification failed">> ELSE <<>>)
           \o (IF criteria.requireIdentity.requireUnique /\ ~identityData.isUnique
               THEN <<"identity uniqueness check failed">> ELSE <<>>)
           \o (IF identityData.riskScore > maxRiskScore
               THEN <<"risk score too high">> ELSE <<>>)

\* validateAttestationResult: the failed checks, in order; <<>> stands for null.
validateAttestationResult(result, criteria) ==
  AgeChecks(result, criteria) \o ResidencyChecks(result, criteria)
    \o RoleChecks(result, criteria) \o IdentityChecks(result, criteria)

\* SelfAttestationService.validateResult
validateResult(result, criteria) ==
  IF ~result.isValid
  THEN [isValid |-> FALSE, hasFailureDetails |-> FALSE, failedChecks |-> <<>>]
  ELSE LET failedChecks == validateAttestationResult(result, criteria)
       IN  IF failedChecks # <<>>
           THEN [isValid |-> FALSE, hasFailureDetails |-> TRUE, failedChecks |-> failedChecks]
           ELSE [isValid |-> TRUE, hasFailureDetails |-> FALSE, failedChecks |-> <<>>]

\* Variant: the client passes the collaborator's verdict on.
verifyComprehensiveResultUnvalidated(result, criteria) ==
  [ isValid |-> result.isValid, hasFailureDetails |-> FALSE, failedChecks |-> <<>>,
    verifiedClaims |-> result.verifiedClaims ]

\* What verifyComprehensive returns once the collaborator has answered.
verifyComprehensiveResult(result, criteria) ==
  LET validationResult == validateResult(result, criteria)
  IN  [ isValid |-> validationResult.isValid,
        hasFailureDetails |-> validationResult.hasFailureDetails,
        failedChecks |-> validationResult.failedChecks,
        verifiedClaims |-> result.verifiedClaims ]

\* check.includes(pattern), for the texts above and the patterns that
\* determineErrorCodeFromFailures looks for.
Includes(check, pattern) ==
  pattern \in
    CASE check = "age verification missing" -> {"age"}
      [] check = "minimum age requirement not met" -> {"age", "minimum age"}
      [] check = "country not allowed" -> {"country not allowed"}
      [] check = "country blocked" -> {"country blocked"}
      [] check = "professional role verification missing" -> {"professional role"}
      [] check = "invalid professional role" -> {"professional role", "invalid professional"}
      [] check = "insufficient verification level" -> {"verification level", "insufficient"}
      [] check = "human verification failed" -> {"human verification"}
      [] check = "identity uniqueness check failed" -> {"uniqueness"}
      [] check = "risk score too high" -> {"risk score"}
      [] OTHER -> {}

SomeCheckIncludes(checks, patterns) ==
  \E i \in DOMAIN checks : \E pattern \in patterns : Includes(checks[i], pattern)

determineErrorCodeFromFailures(checks) ==
  IF SomeCheckIncludes(checks, {"age", "minimum age"}) THEN "UNDER_MINIMUM_AGE"
  ELSE IF SomeCheckIncludes(checks, {"country not allowed"}) THEN "COUNTRY_NOT_ALLOWED"
  ELSE IF SomeCheckIncludes(checks, {"country blocked"}) THEN "COUNTRY_BLOCKED"
  ELSE IF SomeCheckIncludes(checks, {"professional role", "invalid professional"})
       THEN "INVALID_PROFESSIONAL_ROLE"
  ELSE IF SomeCheckIncludes(checks, {"verification level", "insufficient"})
       THEN "INSUFFICIENT_ROLE_LEVEL"
  ELSE IF SomeCheckIncludes(checks, {"human verification"}) THEN "NOT_HUMAN_VERIFIED"
  ELSE IF SomeCheckIncludes(checks, {"uniqueness", "duplicate"}) THEN "DUPLICATE_IDENTITY"
  ELSE IF SomeCheckIncludes(checks, {"risk score"}) THEN "HIGH_RISK_SCORE"
  ELSE "IDENTITY_VERIFICATION_FAILED"

\* executeAttestationStep lines 468-494: the error it throws for the client's
\* result, NoError if it returns the result.
AttestationStepError(attestationResult) ==
  IF ~attestationResult.isValid
  THEN IF attestationResult.hasFailureDetails
       THEN createAttestationError(determineErrorCodeFromFailures(attestationResult.failedChecks))
       ELSE createAttestationError("IDENTITY_VERIFICATION_FAILED")
  ELSE NoError

NoClientResult ==
  [ isValid |-> FALSE, hasFailureDetails |-> FALSE, failedChecks |-> <<>>,
    verifiedClaims |-> NoClaims ]

NoVerification ==
  [ pc |-> "idle", criteria |-> attestationCriteria,
    response |-> [isValid |-> FALSE, verifiedClaims |-> NoClientResult.verifiedClaims],
    result |-> NoClientResult, error |-> NoError ]

(***************************************************************************)
(* The subject id (SelfAttestationService.validateUserDid)                 *)
(***************************************************************************)
\* A string the code inspects is the sequence of its characters.
DefaultUserDid ==
  <<"d", "i", "d", ":", "e", "x", "a", "m", "p", "l", "e", ":", "u", "s", "e", "r", "1", "2", "3">>

WhiteSpace == {" ", "\t", "\n"}

RECURSIVE trimStart(_)
trimStart(s) == IF s # <<>> /\ Head(s) \in WhiteSpace THEN trimStart(Tail(s)) ELSE s

RECURSIVE trimEnd(_)
trimEnd(s) ==
  IF s # <<>> /\ s[Len(s)] \in WhiteSpace THEN trimEnd(SubSeq(s, 1, Len(s) - 1)) ELSE s

trim(s) == trimEnd(trimStart(s))

startsWith(s, prefix) == Len(s) >= Len(prefix) /\ SubSeq(s, 1, Len(prefix)) = prefix

\* Variant: every subject id is accepted.
validateUserDidLenient(userDid) == NoError

\* validateUserDid: the error it throws, NoError if it returns.
validateUserDid(userDid) ==
  IF userDid = <<>> \/ Len(trim(userDid)) = 0
  THEN createAttestationError("INVALID_DID")
  ELSE IF ~startsWith(userDid, <<"d", "i", "d", ":">>)
       THEN createAttestationError("INVALID_DID")
       ELSE NoError

\* const userDid = process.env.USER_DID || "did:example:user123"
userDidOf(env) == IF env # <<>> THEN env ELSE DefaultUserDid

(***************************************************************************)
(* OceanC2DService: getJobStatus, mapJobStatus and the loop of pollJobStatus *)
(***************************************************************************)
\* statusData.status when the collaborator's answer carries none
NoOceanStatus == "<undefined>"

\* String.prototype.toLowerCase on the status texts a collaborator sends
toLowerCase(text) ==
  CASE text = "FAILED" -> "failed"
    [] text = "Completed" -> "completed"
    [] OTHER -> text

\* switch (oceanStatus?.toLowerCase())
mapJobStatus(oceanStatus) ==
  LET lowered == IF oceanStatus = NoOceanStatus THEN NoOceanStatus
                 ELSE toLowerCase(oceanStatus)
  IN  CASE lowered \in {"pending", "queued"} -> "queued"
        [] lowered \in {"running", "in_progress"} -> "running"
        [] lowered \in {"completed", "finished", "success"} -> "completed"
        [] lowered \in {"failed", "error"} -> "failed"
        [] lowered \in {"cancelled", "canceled"} -> "cancelled"
        [] OTHER -> "running"

\* The catch block of getJobStatus: "job completes after 45 seconds"
simulatedJobRuntimeMs == 45000

\* The status of the object getJobStatus returns at currentTime for an answer
\* [ok, status] of the collaborator: ok is FALSE when the fetch rejects, the
\* response is not ok or its body cannot be read.
getJobStatus(answer, currentTime) ==
  IF answer.ok
  THEN mapJobStatus(answer.status)
  ELSE LET jobStartTime == currentTime - simulatedJobRuntimeMs
           runtime == currentTime - jobStartTime
       IN  IF runtime >= simulatedJobRuntimeMs THEN "completed" ELSE "running"

\* A pollJobStatus call that was never made
NoPolling ==
  [pc |-> "idle", due |-> 0, timeoutMs |-> 0, maxEndTime |-> 0, n |-> 0,
   fetched |-> <<>>, status |-> "none"]

\* while (Date.now() < maxEndTime) at time t, the next fetch taking lat: the
\* bound expired at the loop head raises instead of returning.
pollJobStatusLoopRaising(v, t, lat) ==
  IF t < v.maxEndTime
  THEN [v EXCEPT !.pc = "fetch", !.due = t + lat, !.n = @ + 1]
  ELSE [v EXCEPT !.pc = "threw", !.status = "timeout"]

\* while (Date.now() < maxEndTime) at time t, the next fetch taking lat; after
\* the loop the synthetic status "timeout" is returned.
pollJobStatusLoop(v, t, lat) ==
  IF t < v.maxEndTime
  THEN [v EXCEPT !.pc = "fetch", !.due = t + lat, !.n = @ + 1]
  ELSE [v EXCEPT !.pc = "returned", !.status = "timeout"]

\* if (status.status === "completed" || "failed" || "cancelled") return status
\* with the comparison against "failed" and "cancelled" left out
isTerminalCompletedOnly(status) == status = "completed"

\* if (status.status === "completed" || status.status === "failed" ||
\*     status.status === "cancelled") return status
isTerminal(status) == status \in {"completed", "failed", "cancelled"}

\* The body of the loop once getJobStatus has returned status at time t.
pollJobStatusBody(v, answer, status, t) ==
  LET seen == [v EXCEPT !.fetched = Append(@, [answer |-> answer, status |-> status])]
  IN  IF isTerminal(status)
      THEN [seen EXCEPT !.pc = "returned", !.status = status]
      ELSE [seen EXCEPT !.pc = "sleep", !.due = t + defaultPollIntervalMs]

(***************************************************************************)
(* JobMetadataLogger: the job-history index (updateJobHistory)             *)
(***************************************************************************)
\* "Keep only last 100 jobs"
maxHistoryJobs == 100

\* The history updateJobHistory starts from when history.json cannot be read.
emptyHistory ==
  [jobs |-> <<>>, summary |-> [totalJobs |-> 0, successfulJobs |-> 0, failedJobs |-> 0]]

\* Array.prototype.slice(0, end)
slice(array, end) == SubSeq(array, 1, IF end < Len(array) THEN end ELSE Len(array))

\* jobs.filter((j) => j.success === success).length
filterLength(jobs, success) ==
  Cardinality({i \in DOMAIN jobs : jobs[i].success = success})

\* The summary of the history object (averageDuration and lastUpdated left out).
historySummary(trimmedJobs) ==
  [totalJobs |-> Len(trimmedJobs),
   successfulJobs |-> filterLength(trimmedJobs, TRUE),
   failedJobs |-> filterLength(trimmedJobs, FALSE)]

\* Variant: the new entry is prepended and nothing is cut off.
updateJobHistoryUntrimmed(history, jobEntry) ==
  LET newJobs == <<jobEntry>> \o history.jobs
  IN  [jobs |-> newJobs, summary |-> historySummary(newJobs)]

\* The history object updateJobHistory writes, from the one it read.
updateJobHistory(history, jobEntry) ==
  LET newJobs == <<jobEntry>> \o history.jobs
      trimmedJobs == IF Len(newJobs) > maxHistoryJobs THEN slice(newJobs, maxHistoryJobs)
                     ELSE newJobs
  IN  [jobs |-> trimmedJobs, summary |-> historySummary(trimmedJobs)]

\* A logs directory without history.json, nothing persisted yet.  persisted
\* lists, newest first, the jobs whose job file was written; intact says that
\* no read of an existing history.json and no write of it has failed.
NoLogs ==
  [exists |-> FALSE, history |-> emptyHistory, persisted |-> <<>>, intact |-> TRUE,
   calls |-> 0]

(***************************************************************************)
(* State                                                                   *)
(***************************************************************************)
VARIABLES
  now,    \* Date.now()
  cfg,    \* the configuration of this run: config.timeoutMs, what
          \* SelfAttestationService.initialize finds, process.env.USER_DID and
          \* whether the subject id it gives is well formed
  calls,  \* the executeWithTimeout invocations of the run's TimeoutManager
  loop,   \* executeJobWithRetries / executeJobAttempt
  att,    \* executeAttestationStep of each attempt
  c2d,    \* executeC2DStep of each attempt
  poll,   \* OceanC2DService.pollJobStatus of each attempt
  main,   \* runJob
  meta,   \* the MutableJobMetadata object of runJob
  hist,   \* history: counters, the hand-offs to the JobMetadataLogger, the
          \* sizes logged by cancelAllOperations and whether the compute
          \* collaborator has answered any request
  av,     \* one verification seen on its own: the criteria, the collaborator's
          \* answer, what the client returns and what the attestation step decides
  logs,   \* the logs directory of a JobMetadataLogger seen on its own:
          \* history.json and the jobs persisted so far
  svc     \* one pollJobStatus call of an OceanC2DService seen on its own: its
          \* position, its bound, the answers of the collaborator so far and
          \* what it returns

vars == <<now, cfg, calls, loop, att, c2d, poll, main, meta, hist, av, svc, logs>>

AttemptIdx == 0..maxRetries
JOB == 0
AttCall(a) == a + 1
C2DCall(a) == maxRetries + 2 + a
AttCalls == {AttCall(a) : a \in AttemptIdx}
C2DCalls == {C2DCall(a) : a \in AttemptIdx}
CallIds == {JOB} \cup AttCalls \cup C2DCalls
AttemptOf(c) == IF c \in AttCalls THEN c - 1 ELSE c - (maxRetries + 2)

\* JobResult as runJob returns it (an absent timedOut / cancelled reads as false).
NoJobResult ==
  [ success |-> FALSE, error |-> NoError, timedOut |-> FALSE, cancelled |-> FALSE,
    value |-> NoOpValue ]

St ==
  [ calls |-> calls, loop |-> loop, att |-> att, c2d |-> c2d, poll |-> poll,
    main |-> main, meta |-> meta, hist |-> hist ]

tmConfig == TimeoutConfig(cfg.timeoutMs)

\* createOceanC2DService({timeoutMs: config.timeoutMs - 60000}) and the
\* constructor's default.
C2DServiceTimeoutMs(jobTimeoutMs) ==
  IF jobTimeoutMs - cleanupReserveMs # 0
  THEN jobTimeoutMs - cleanupReserveMs
  ELSE defaultC2DServiceTimeoutMs

\* fullConfig.timeoutMs: getDefaultConfig() gives 5 minutes when the caller passes none.
fullConfigTimeoutMs == cfg.timeoutMs

(***************************************************************************)
(* runJob after executeJob has returned (lines 114-186)                    *)
(***************************************************************************)
FinalStatus(timeoutResult) ==
  IF ~timeoutResult.success
  THEN (IF timeoutResult.timedOut THEN "timeout" ELSE "failed")
  ELSE "completed"

RunJobResult(timeoutResult) ==
  IF ~timeoutResult.success
  THEN [ success |-> FALSE, error |-> timeoutResult.error,
         timedOut |-> timeoutResult.timedOut, cancelled |-> timeoutResult.cancelled,
         value |-> NoOpValue ]
  ELSE [ success |-> TRUE, error |-> NoError, timedOut |-> FALSE, cancelled |-> FALSE,
         value |-> timeoutResult.result ]

RunJobAfterExecuteJob(s, timeoutResult, lat) ==
  LET finalMetadata == [s.meta EXCEPT !.status = FinalStatus(timeoutResult)]
      result == RunJobResult(timeoutResult)
  IN  [s EXCEPT !.main = [pc |-> "persistTry", due |-> now + Latency("recorder", lat), result |-> result],
                !.hist.handed = Append(@, [metadata |-> finalMetadata, result |-> result])]

(***************************************************************************)
(* executeJobWithRetries (lines 231-300)                                   *)
(***************************************************************************)
\* The promise of the job operation settles; executeWithTimeout of the job
\* returns if its race is still open.
JobOpSettled(s, outcome, value, error, lat) ==
  LET c2 == EwtAfterOp(s.calls[JOB], outcome, value, error, now)
      s1 == [s EXCEPT !.loop.pc = outcome, !.loop.err = error, !.calls[JOB] = c2]
  IN  IF s.calls[JOB].st = "active"
      THEN RunJobAfterExecuteJob(s1, c2.wres, lat)
      ELSE s1

\* Variants of the retry decision: one attempt fewer; the flag alone; the
\* category alone.
shouldRetryOneLess(attempt, error) ==
  /\ attempt < maxRetries - 1
  /\ ErrRetryable(error)
  /\ ErrCategory(error) \in retryableErrorCategories

shouldRetryByFlag(attempt, error) ==
  /\ attempt < maxRetries
  /\ ErrRetryable(error)

shouldRetryByCategory(attempt, error) ==
  /\ attempt < maxRetries
  /\ ErrCategory(error) \in retryableErrorCategories

shouldRetry(attempt, error) ==
  /\ attempt < maxRetries
  /\ ErrRetryable(error)
  /\ ErrCategory(error) \in retryableErrorCategories

\* Variant: the delay before a retry does not look at the signal it is given.
LoopCatchDelayUnchecked(s, error, lat) ==
  LET s0 == [s EXCEPT !.hist.caught = @ \cup {[attempt |-> s.loop.attempt, error |-> error]}]
  IN  IF IsAttestationException(error) /\ shouldRetry(s.loop.attempt, error)
      THEN [s0 EXCEPT !.hist.delays = @ + 1,
                      !.hist.backoffs = @ \cup {s.loop.attempt},
                      !.loop.pc = "backoff", !.loop.due = now + retryDelayMs,
                      !.loop.err = error]
      ELSE JobOpSettled(s0, "rejected", NoOpValue, error, lat)

\* The catch block of the attempt loop.  TimeoutManager.delay rejects at once
\* when the job signal is already aborted.
LoopCatch(s, error, lat) ==
  LET s0 == [s EXCEPT !.hist.caught = @ \cup {[attempt |-> s.loop.attempt, error |-> error]}]
  IN  IF IsAttestationException(error) /\ shouldRetry(s.loop.attempt, error)
      THEN LET s1 == [s0 EXCEPT !.hist.delays = @ + 1,
                                !.hist.backoffs = @ \cup {s.loop.attempt}]
           IN  IF s.calls[JOB].aborted
               THEN JobOpSettled(s1, "rejected", NoOpValue,
                                 createAttestationError("OPERATION_CANCELLED"), lat)
               ELSE [s1 EXCEPT !.loop.pc = "backoff", !.loop.due = now + retryDelayMs,
                               !.loop.err = error]
      ELSE JobOpSettled(s0, "rejected", NoOpValue, error, lat)

(***************************************************************************)
(* executeJobAttempt, compute phase (lines 335-363), executeC2DStep,       *)
(* monitorC2DJobWithCancellation, OceanC2DService                          *)
(***************************************************************************)
LoopAfterC2D(s, c2dResult, lat) ==
  IF ~c2dResult.success
  THEN LoopCatch(s, c2dResult.error, lat)
  ELSE LET a == s.loop.attempt
           result == JobValue(s.calls[AttCall(a)].wres.result, c2dResult.result)
       IN  JobOpSettled([s EXCEPT !.meta.retryCount = a], "resolved", result, NoError, lat)

\* The promise of executeC2DStep settles.
C2DOpSettled(s, a, outcome, value, error, lat) ==
  LET c2 == EwtAfterOp(s.calls[C2DCall(a)], outcome, value, error, now)
      s1 == [s EXCEPT !.c2d[a].pc = "done", !.calls[C2DCall(a)] = c2]
  IN  IF s.calls[C2DCall(a)].st = "active"
      THEN LoopAfterC2D(s1, c2.wres, lat)
      ELSE s1

\* pollJobStatus returned: executeC2DStep lines 553-564, if the race of
\* monitorC2DJobWithCancellation is still open.
PollReturned(s, a, status, lat) ==
  LET s1 == [s EXCEPT !.poll[a].pc = "done", !.poll[a].status = status]
  IN  IF s.c2d[a].pc = "monitor"
      THEN IF status = "failed" \/ status = "timeout"
           THEN C2DOpSettled(s1, a, "rejected", NoOpValue, PlainError, lat)
           ELSE C2DOpSettled(s1, a, "resolved", C2DValue(status), NoError, lat)
      ELSE s1

\* The head of the while loop of pollJobStatus.
PollLoopHead(s, a, lat) ==
  IF now < s.poll[a].maxEndTime
  THEN [s EXCEPT !.poll[a].pc = "fetch", !.poll[a].due = now + Latency("status", lat),
                 !.poll[a].n = @ + 1, !.hist.fetches = @ + 1]
  ELSE PollReturned(s, a, "timeout", lat)

\* After startC2DJob: checkAbortSignal, then monitorC2DJobWithCancellation.
C2DAfterSubmit(s, a, lat) ==
  IF s.calls[C2DCall(a)].aborted
  THEN C2DOpSettled(s, a, "rejected", NoOpValue,
                    createAttestationError("OPERATION_CANCELLED"), lat)
  ELSE PollLoopHead(
         [s EXCEPT !.c2d[a].pc = "monitor",
                   !.poll[a] = [pc |-> "start", due |-> 0, status |-> "none", n |-> 0,
                                maxEndTime |-> now + C2DServiceTimeoutMs(fullConfigTimeoutMs)]],
         a, lat)

\* After c2dService.initialize(): checkAbortSignal, then startC2DJob, whose
\* only request is the compute-job submission.
C2DAfterInitialize(s, a, lat) ==
  IF s.calls[C2DCall(a)].aborted
  THEN C2DOpSettled(s, a, "rejected", NoOpValue,
                    createAttestationError("OPERATION_CANCELLED"), lat)
  ELSE [s EXCEPT !.c2d[a].pc = "submit", !.c2d[a].due = now + Latency("compute", lat)]

\* executeC2D(...) of executeJobAttempt and the start of executeC2DStep: the
\* health check of initialize() is the first request.
StartC2DPhase(s, lat) ==
  LET a == s.loop.attempt
  IN  [s EXCEPT !.calls[C2DCall(a)] =
                   EwtStart(tmConfig, "c2d-execution", "executeC2D", tmConfig.c2dTimeoutMs, now),
                !.loop.pc = "awaitC2D",
                !.c2d[a] = [pc |-> "health", due |-> now + Latency("compute", lat)]]

(***************************************************************************)
(* executeJobAttempt, attestation phase (lines 318-336),                   *)
(* executeAttestationStep, SelfAttestationService                          *)
(***************************************************************************)
\* Variant: the compute phase is started whatever the attestation returned.
LoopAfterAttestationUnchecked(s, attestationResult, lat) ==
  IF s.calls[JOB].aborted
  THEN LoopCatch(s, createAttestationError("OPERATION_CANCELLED"), lat)
  ELSE StartC2DPhase(s, lat)

\* Variant: no check of the job signal between the two phases.
LoopAfterAttestationUncancelled(s, attestationResult, lat) ==
  IF ~attestationResult.success
  THEN LoopCatch(s, attestationResult.error, lat)
  ELSE StartC2DPhase(s, lat)

LoopAfterAttestation(s, attestationResult, lat) ==
  IF ~attestationResult.success
  THEN LoopCatch(s, attestationResult.error, lat)
  ELSE IF s.calls[JOB].aborted
       THEN LoopCatch(s, createAttestationError("OPERATION_CANCELLED"), lat)
       ELSE StartC2DPhase(s, lat)

\* The promise of executeAttestationStep settles.
AttOpSettled(s, a, outcome, value, error, lat) ==
  LET c2 == EwtAfterOp(s.calls[AttCall(a)], outcome, value, error, now)
      s1 == [s EXCEPT !.att[a].pc = "done", !.calls[AttCall(a)] = c2]
  IN  IF s.calls[AttCall(a)].st = "active"
      THEN LoopAfterAttestation(s1, c2.wres, lat)
      ELSE s1

\* What the attestation collaborator may answer to verifyAttestation, as
\* executeAttestationStep sees it after the client's post-validation: a valid
\* result, an invalid result without failure details, an invalid result whose
\* failed checks select the given code, or a thrown (non-typed) error.
AttResponses ==
  { [isValid |-> TRUE,  code |-> NoError],
    [isValid |-> FALSE, code |-> NoError],
    [isValid |-> FALSE, code |-> "UNDER_MINIMUM_AGE"],
    [isValid |-> FALSE, code |-> "INSUFFICIENT_ROLE_LEVEL"],
    [isValid |-> FALSE, code |-> "HIGH_RISK_SCORE"] }

\* executeAttestationStep lines 465-505: the signal check, then the validity check.
AttAfterVerify(s, a, resp, lat) ==
  IF s.calls[AttCall(a)].aborted
  THEN AttOpSettled(s, a, "rejected", NoOpValue,
                    createAttestationError("OPERATION_CANCELLED"), lat)
  ELSE IF ~resp.isValid
       THEN AttOpSettled(s, a, "rejected", NoOpValue,
                         IF resp.code # NoError THEN resp.code
                         ELSE "IDENTITY_VERIFICATION_FAILED", lat)
       ELSE AttOpSettled(s, a, "resolved", AttestationValue(resp.isValid), NoError, lat)

\* executeAttestation(...) of executeJobAttempt and executeAttestationStep up
\* to its first request: initialize() (no I/O), validateUserDid, then
\* createProofRequest.
StartAttestationPhase(s, lat) ==
  LET a == s.loop.attempt
      s1 == [s EXCEPT !.calls[AttCall(a)] =
                         EwtStart(tmConfig, "attestation", "executeAttestation",
                                  tmConfig.attestationTimeoutMs, now),
                      !.loop.pc = "awaitAtt"]
  IN  IF cfg.initError # NoError
      THEN AttOpSettled(s1, a, "rejected", NoOpValue, cfg.initError, lat)
      ELSE IF validateUserDid(userDidOf(cfg.USER_DID)) # NoError
           THEN AttOpSettled(s1, a, "rejected", NoOpValue,
                             validateUserDid(userDidOf(cfg.USER_DID)), lat)
           ELSE [s1 EXCEPT !.att[a] = [pc |-> "proofReq", due |-> now + Latency("attestation", lat)]]

\* executeJobAttempt from its first line.
StartAttempt(s, lat) ==
  LET s1 == [s EXCEPT !.hist.attempts = @ + 1]
  IN  IF s.calls[JOB].aborted
      THEN LoopCatch(s1, createAttestationError("OPERATION_CANCELLED"), lat)
      ELSE StartAttestationPhase(s1, lat)


(***************************************************************************)
(* cancelAllOperations (lines 933-950) and the finally block of runJob     *)
(***************************************************************************)
\* The abort listeners of monitorC2DJobWithCancellation, one attempt after the
\* other: a compute step that is racing its poll against the signal rejects.
RECURSIVE RejectMonitors(_, _, _, _)
RejectMonitors(s, aborted, a, lat) ==
  IF a > maxRetries THEN s
  ELSE IF C2DCall(a) \in aborted /\ s.c2d[a].pc = "monitor"
       THEN RejectMonitors(
              C2DOpSettled(s, a, "rejected", NoOpValue,
                           createAttestationError("OPERATION_CANCELLED"), lat),
              aborted, a + 1, lat)
       ELSE RejectMonitors(s, aborted, a + 1, lat)

\* Variant: cancelAllOperations without its final cleanup().
cancelAllOperationsKeepRegistry(s, lat) ==
  LET registered == {c \in CallIds : s.calls[c].registered}
      newlyAborted == {c \in registered : ~s.calls[c].aborted}
      s1 == [s EXCEPT !.calls = [c \in CallIds |->
                         IF c \in registered THEN AbortCall(s.calls[c]) ELSE s.calls[c]],
                      !.hist.cancelAlls = Append(@, Cardinality(registered))]
  IN  RejectMonitors(s1, newlyAborted, 0, lat)

\* cancelAllOperations logs the size of the registry, aborts every registered
\* controller and empties the registry; the abort listeners of the guarded
\* operations run after it.
cancelAllOperations(s, lat) ==
  LET registered == {c \in CallIds : s.calls[c].registered}
      newlyAborted == {c \in registered : ~s.calls[c].aborted}
      s1 == [s EXCEPT !.calls = [c \in CallIds |->
                         IF c \in registered
                         THEN [AbortCall(s.calls[c]) EXCEPT !.registered = FALSE]
                         ELSE s.calls[c]],
                      !.hist.cancelAlls = Append(@, Cardinality(registered))]
  IN  RejectMonitors(s1, newlyAborted, 0, lat)

\* cancelOperation(operationId): abort and release, if the id is registered.
cancelOperation(s, c) ==
  IF s.calls[c].registered
  THEN [s EXCEPT !.calls[c] = [AbortCall(s.calls[c]) EXCEPT !.registered = FALSE]]
  ELSE s

getActiveOperationsCount(s) == Cardinality({c \in CallIds : s.calls[c].registered})

\* Variant: runJob without its finally block.
RunJobFinallySkipped(s, lat) == s

\* runJob lines 212-219.
RunJobFinally(s, lat) ==
  IF getActiveOperationsCount(s) > 0 THEN cancelAllOperations(s, lat) ELSE s

(***************************************************************************)
(* Actions: one per macrotask                                              *)
(***************************************************************************)
\* Environment bound: once the executeWithTimeout call that guards a task has
\* returned, what the task still receives is discarded by the race, and the
\* remaining responses are taken to be prompt and successful.
Guarded(c) == calls[c].st = "active"
LatenciesFor(c) == IF Guarded(c) THEN Latencies ELSE {FastLatencyMs}
OutcomesFor(c) == IF Guarded(c) THEN BOOLEAN ELSE {TRUE}

AttResponsesFor(c) == IF Guarded(c) THEN AttResponses ELSE {r \in AttResponses : r.isValid}

Install(s) ==
  /\ calls' = s.calls
  /\ loop' = s.loop
  /\ att' = s.att
  /\ c2d' = s.c2d
  /\ poll' = s.poll
  /\ main' = s.main
  /\ meta' = s.meta
  /\ hist' = s.hist
  /\ UNCHANGED <<now, cfg, av, svc, logs>>

\* runJob lines 65-85: up to await logger.initialize().
RunJob ==
  /\ main.pc = "start"
  /\ \E lat \in Latencies :
       Install([St EXCEPT !.main.pc = "loggerInit", !.main.due = now + Latency("recorder", lat)])

\* logger.initialize() settles.  On failure runJob rejects (the await is
\* outside its try); otherwise executeJob starts and the attempt loop runs up
\* to its first request.
LoggerInitialized ==
  /\ main.pc = "loggerInit"
  /\ main.due <= now
  /\ \E ok \in BOOLEAN, lat \in Latencies :
       IF ~ok
       THEN Install([St EXCEPT !.main.pc = "threw"])
       ELSE Install(StartAttempt(
              [St EXCEPT !.main.pc = "awaitJob",
                         !.calls[JOB] = EwtStart(tmConfig, "job-execution", "executeJob",
                                                 tmConfig.jobTimeoutMs, now),
                         !.loop.pc = "running"],
              lat))

\* The timer of an executeWithTimeout call expires: abort(), the abort
\* listeners of the guarded operation, reject(timeout error); the call
\* returns if its race is still open.
TimerExpires(c) ==
  /\ calls[c].timer = "pending"
  /\ Deadline(calls[c]) <= now
  /\ \E lat \in Latencies :
       LET wasActive == calls[c].st = "active"
           fired == TimerFired(calls[c])
           s1 == [St EXCEPT !.calls[c] = fired,
                            !.hist.firedActive = IF wasActive THEN @ \cup {c} ELSE @]
           \* listeners: a backoff delay on the job signal, a monitor on a compute signal
           cancelled == OpSettles(fired, "rejected", NoOpValue,
                                  createAttestationError("OPERATION_CANCELLED"))
           s2 == IF c = JOB /\ s1.loop.pc = "backoff"
                 THEN [s1 EXCEPT !.loop.pc = "rejected",
                                 !.loop.err = createAttestationError("OPERATION_CANCELLED"),
                                 !.calls[c] = cancelled]
                 ELSE IF c \in C2DCalls /\ s1.c2d[AttemptOf(c)].pc = "monitor"
                      THEN [s1 EXCEPT !.c2d[AttemptOf(c)].pc = "done",
                                      !.calls[c] = cancelled]
                      ELSE s1
           res == EwtCatchResult(fired, createTimeoutError(fired.type), now)
           ret == EwtReturn(s2.calls[c], res, now)
           s3 == [s2 EXCEPT !.calls[c] = ret]
       IN  IF ~wasActive THEN Install(s2)
           ELSE IF c = JOB THEN Install(RunJobAfterExecuteJob(s3, ret.wres, lat))
           ELSE IF c \in AttCalls THEN Install(LoopAfterAttestation(s3, ret.wres, lat))
           ELSE Install(LoopAfterC2D(s3, ret.wres, lat))

\* The backoff delay of the attempt loop elapses (lines 271-286).
BackoffElapsed ==
  /\ loop.pc = "backoff"
  /\ loop.due <= now
  /\ \E lat \in Latencies :
       Install(StartAttempt(
         [St EXCEPT !.meta.retryCount = loop.attempt + 1,
                    !.meta.lastError = loop.err,
                    !.loop.attempt = loop.attempt + 1,
                    !.loop.pc = "running",
                    !.hist.delaysDone = @ + 1],
         lat))

\* createProofRequest settles (verifyComprehensive line 358).
ProofRequestSettles(a) ==
  /\ att[a].pc = "proofReq"
  /\ att[a].due <= now
  /\ \E ok \in OutcomesFor(AttCall(a)), lat \in LatenciesFor(AttCall(a)) :
       IF ok
       THEN Install([St EXCEPT !.att[a].pc = "verifyReq", !.att[a].due = now + Latency("attestation", lat)])
       ELSE Install(AttOpSettled([St EXCEPT !.hist.refused = TRUE], a, "rejected", NoOpValue,
                      createAttestationError("IDENTITY_VERIFICATION_FAILED"), lat))

\* verifyAttestation settles (verifyComprehensive line 366).
AttestationRequestSettles(a) ==
  /\ att[a].pc = "verifyReq"
  /\ att[a].due <= now
  /\ \E lat \in LatenciesFor(AttCall(a)) :
       \/ \E resp \in AttResponsesFor(AttCall(a)) :
            Install(AttAfterVerify([St EXCEPT !.hist.refused = @ \/ ~resp.isValid],
                                   a, resp, lat))
       \/ /\ Guarded(AttCall(a))
          /\ Install(AttOpSettled([St EXCEPT !.hist.refused = TRUE], a, "rejected", NoOpValue,
                       createAttestationError("IDENTITY_VERIFICATION_FAILED"), lat))

\* The requests of OceanC2DService.initialize settle: the health check, then
\* the metadata of the dataset and of the algorithm.  Any failure ends
\* initialize() without an error.
HealthCheckSettles(a) ==
  /\ c2d[a].pc = "health"
  /\ c2d[a].due <= now
  /\ \E ok \in OutcomesFor(C2DCall(a)), lat \in LatenciesFor(C2DCall(a)) :
       IF ok
       THEN Install([St EXCEPT !.c2d[a].pc = "meta1", !.c2d[a].due = now + Latency("compute", lat),
                               !.hist.answered = TRUE])
       ELSE Install(C2DAfterInitialize(St, a, lat))

AssetMetadataSettles(a) ==
  /\ c2d[a].pc \in {"meta1", "meta2"}
  /\ c2d[a].due <= now
  /\ \E ok \in OutcomesFor(C2DCall(a)), lat \in LatenciesFor(C2DCall(a)) :
       IF ok /\ c2d[a].pc = "meta1"
       THEN Install([St EXCEPT !.c2d[a].pc = "meta2", !.c2d[a].due = now + Latency("compute", lat)])
       ELSE Install(C2DAfterInitialize(St, a, lat))

\* The submission of submitComputeJob settles; a failure yields a mock job id.
SubmitSettles(a) ==
  /\ c2d[a].pc = "submit"
  /\ c2d[a].due <= now
  /\ \E ok \in OutcomesFor(C2DCall(a)), lat \in LatenciesFor(C2DCall(a)) :
       Install(C2DAfterSubmit([St EXCEPT !.hist.answered = @ \/ ok], a, lat))

\* What a status fetch yields after getJobStatus / mapJobStatus: a collaborator
\* status, or "completed" from the simulation when the fetch fails.
FetchOutcomes == {"queued", "running", "completed", "failed", "cancelled"}

Terminal == {"completed", "failed", "cancelled"}
FetchOutcomesFor(a) ==
  {status \in FetchOutcomes :
     /\ status \notin Terminal => poll[a].n <= MaxPending
     /\ ~Guarded(C2DCall(a)) => status \in {"running", "completed"}}

\* A status fetch of pollJobStatus settles.
StatusFetchSettles(a) ==
  /\ poll[a].pc = "fetch"
  /\ poll[a].due <= now
  /\ \E status \in FetchOutcomesFor(a), lat \in LatenciesFor(C2DCall(a)),
        ok \in OutcomesFor(C2DCall(a)) :
       \* a fetch that fails yields the simulated status
       /\ ~ok => status = getJobStatus([ok |-> FALSE, status |-> NoOceanStatus], now)
       /\ IF status \in Terminal
          THEN Install(PollReturned([St EXCEPT !.hist.refused = @ \/ status # "completed",
                                              !.hist.answered = @ \/ ok],
                                    a, status, lat))
          ELSE Install([St EXCEPT !.poll[a].pc = "sleep",
                                  !.poll[a].due = now + defaultPollIntervalMs,
                                  !.hist.answered = TRUE])

\* The sleep between two polls elapses.
PollSleepElapsed(a) ==
  /\ poll[a].pc = "sleep"
  /\ poll[a].due <= now
  /\ \E lat \in LatenciesFor(C2DCall(a)) : Install(PollLoopHead(St, a, lat))

\* persistJobData settles: in the try block (lines 161 / 184) or in the catch
\* block (line 209).
PersistSettles ==
  /\ main.pc \in {"persistTry", "persistCatch"}
  /\ main.due <= now
  /\ \E ok \in BOOLEAN, lat \in Latencies :
       IF ok
       THEN Install(RunJobFinally([St EXCEPT !.main.pc = "returned"], lat))
       ELSE IF main.pc = "persistTry"
            THEN LET finalMetadata == [meta EXCEPT !.status = "failed"]
                     errorResult == NoJobResult
                 IN  Install([St EXCEPT
                        !.main = [pc |-> "persistCatch", due |-> now + Latency("recorder", lat),
                                  result |-> errorResult],
                        !.hist.handed = Append(@, [metadata |-> finalMetadata,
                                                   result |-> errorResult])])
            ELSE Install(RunJobFinally([St EXCEPT !.main.pc = "threw"], lat))

\* The event loop is idle until the next timer or response.
Dues ==
  {Deadline(calls[c]) : c \in {x \in CallIds : calls[x].timer = "pending"}}
  \cup {att[a].due : a \in {x \in AttemptIdx : att[x].pc \in {"proofReq", "verifyReq"}}}
  \cup {c2d[a].due : a \in {x \in AttemptIdx : c2d[x].pc \in {"health", "meta1", "meta2", "submit"}}}
  \cup {poll[a].due : a \in {x \in AttemptIdx : poll[x].pc \in {"fetch", "sleep"}}}
  \cup (IF loop.pc = "backoff" THEN {loop.due} ELSE {})
  \cup (IF svc.pc \in {"fetch", "sleep"} THEN {svc.due} ELSE {})
  \cup (IF main.pc \in {"loggerInit", "persistTry", "persistCatch"} THEN {main.due} ELSE {})

Advance ==
  /\ Dues # {}
  /\ \A d \in Dues : d > now
  /\ now' = CHOOSE d \in Dues : \A e \in Dues : d <= e
  /\ UNCHANGED <<cfg, calls, loop, att, c2d, poll, main, meta, hist, av, svc, logs>>

(***************************************************************************)
(* Specification                                                           *)
(***************************************************************************)
\* process.env.USER_DID: unset, "user-1", blank, or a did with a leading blank.
UserDidEnvs ==
  { <<>>,
    <<"u", "s", "e", "r", "-", "1">>,
    <<" ", " ">>,
    <<" ", "d", "i", "d", ":", "a">> }

Configs ==
  { c \in [ timeoutMs : JobTimeouts,
            initError : {NoError, "MISSING_API_KEY"},
            USER_DID  : UserDidEnvs,
            didOk     : BOOLEAN ] :
      c.didOk = (validateUserDid(userDidOf(c.USER_DID)) = NoError) }

Init ==
  /\ now = 0
  /\ cfg \in Configs
  /\ calls = [c \in CallIds |-> IdleCall]
  /\ loop = [pc |-> "idle", attempt |-> 0, due |-> 0, err |-> NoError]
  /\ att = [a \in AttemptIdx |-> [pc |-> "idle", due |-> 0]]
  /\ c2d = [a \in AttemptIdx |-> [pc |-> "idle", due |-> 0]]
  /\ poll = [a \in AttemptIdx |-> [pc |-> "idle", due |-> 0, status |-> "none", n |-> 0,
                                    maxEndTime |-> 0]]
  /\ main = [pc |-> "start", due |-> 0, result |-> NoJobResult]
  /\ meta = [status |-> "running", retryCount |-> 0, lastError |-> NoError]
  /\ hist = [attempts |-> 0, delays |-> 0, delaysDone |-> 0, fetches |-> 0,
             caught |-> {}, backoffs |-> {}, firedActive |-> {}, refused |-> FALSE,
             handed |-> <<>>, cancelAlls |-> <<>>, answered |-> FALSE]
  /\ av = NoVerification
  /\ svc = NoPolling
  /\ logs = NoLogs

Next ==
  \/ RunJob
  \/ LoggerInitialized
  \/ \E c \in CallIds : TimerExpires(c)
  \/ BackoffElapsed
  \/ \E a \in AttemptIdx : ProofRequestSettles(a)
  \/ \E a \in AttemptIdx : AttestationRequestSettles(a)
  \/ \E a \in AttemptIdx : HealthCheckSettles(a)
  \/ \E a \in AttemptIdx : AssetMetadataSettles(a)
  \/ \E a \in AttemptIdx : SubmitSettles(a)
  \/ \E a \in AttemptIdx : StatusFetchSettles(a)
  \/ \E a \in AttemptIdx : PollSleepElapsed(a)
  \/ PersistSettles
  \/ Advance

Spec == Init /\ [][Next]_vars

\* Fair timers and a fair event loop: a timer that is due fires, a request
\* that has been answered is handed to its continuation.
SpecLive == Spec /\ WF_vars(Next)

(***************************************************************************)
(* The TimeoutManager on its own: a caller of its public methods           *)
(* (executeWithTimeout, executeJob, executeAttestation, executeC2D,        *)
(* cancelAllOperations, cancelOperation) and operations that settle when   *)
(* they please.  runJob is never called.                                   *)
(***************************************************************************)
\* The caller makes an outer call, then an inner call (two entries of calls).
TMSlots == {JOB, AttCall(0)}

\* The ways of calling: through a wrapper, which passes the configured
\* timeout, or executeWithTimeout directly, with the operation type "other"
\* and no timeout, or with a short timeout.
TMInvocations(c) ==
  IF c = JOB
  THEN { [type |-> "job-execution", wrapper |-> "executeJob",
          timeoutMs |-> tmConfig.jobTimeoutMs],
         [type |-> "other", wrapper |-> "none", timeoutMs |-> 0] }
  ELSE { [type |-> "attestation", wrapper |-> "executeAttestation",
          timeoutMs |-> tmConfig.attestationTimeoutMs],
         [type |-> "c2d-execution", wrapper |-> "executeC2D",
          timeoutMs |-> tmConfig.c2dTimeoutMs],
         [type |-> "attestation", wrapper |-> "none", timeoutMs |-> FastLatencyMs] }

TMValue(type) ==
  CASE type = "attestation"   -> AttestationValue(TRUE)
    [] type = "c2d-execution" -> C2DValue("completed")
    [] OTHER                  -> JobValue(AttestationValue(TRUE), C2DValue("completed"))

TMErrors == {PlainError, createAttestationError("IDENTITY_VERIFICATION_FAILED")}

CallerInvokes(c) ==
  /\ c \in TMSlots
  /\ calls[c].st = "idle"
  /\ \A d \in TMSlots : d < c => calls[d].st # "idle"
  /\ \E i \in TMInvocations(c) :
       calls' = [calls EXCEPT ![c] = EwtStart(tmConfig, i.type, i.wrapper, i.timeoutMs, now)]
  /\ UNCHANGED <<now, cfg, loop, att, c2d, poll, main, meta, hist, av, svc, logs>>

OperationSettles(c) ==
  /\ c \in TMSlots
  /\ calls[c].st # "idle"
  /\ calls[c].op.outcome = "pending"
  /\ \/ calls' = [calls EXCEPT ![c] =
                    EwtAfterOp(calls[c], "resolved", TMValue(calls[c].type), NoError, now)]
     \/ \E e \in TMErrors :
          calls' = [calls EXCEPT ![c] = EwtAfterOp(calls[c], "rejected", NoOpValue, e, now)]
  /\ UNCHANGED <<now, cfg, loop, att, c2d, poll, main, meta, hist, av, svc, logs>>

CallTimerExpires(c) ==
  /\ c \in TMSlots
  /\ calls[c].timer = "pending"
  /\ Deadline(calls[c]) <= now
  /\ calls' = [calls EXCEPT ![c] = EwtAfterTimer(calls[c], now)]
  /\ hist' = [hist EXCEPT !.firedActive = IF calls[c].st = "active" THEN @ \cup {c} ELSE @]
  /\ UNCHANGED <<now, cfg, loop, att, c2d, poll, main, meta, av, svc, logs>>

CallerCancelsAll ==
  /\ Len(hist.cancelAlls) < MaxCancels
  /\ Install(cancelAllOperations(St, FastLatencyMs))

CallerCancelsOperation(c) ==
  /\ c \in TMSlots
  /\ calls[c].registered
  /\ Install(cancelOperation(St, c))

InitTM ==
  /\ Init
  /\ cfg.timeoutMs = defaultJobTimeoutMs
  /\ cfg.initError = NoError
  /\ cfg.didOk

NextTM ==
  \/ \E c \in TMSlots : CallerInvokes(c)
  \/ \E c \in TMSlots : OperationSettles(c)
  \/ \E c \in TMSlots : CallTimerExpires(c)
  \/ CallerCancelsAll
  \/ \E c \in TMSlots : CallerCancelsOperation(c)
  \/ Advance

SpecTM == InitTM /\ [][NextTM]_vars

(***************************************************************************)
(* One verification on its own: verifyComprehensive from the collaborator's *)
(* answer on, then the decision of executeAttestationStep, for a range of  *)
(* criteria and answers.                                                   *)
(***************************************************************************)
CriteriaRange ==
  [ requireAge : {NoCriteria.requireAge} \cup [present : {TRUE}, minimumAge : {0, 18, 21}],
    requireResidency :
      { NoCriteria.requireResidency, attestationCriteria.requireResidency,
        [present |-> TRUE, allowedCountries |-> {"US"}, blockedCountries |-> {}],
        [present |-> TRUE, allowedCountries |-> {}, blockedCountries |-> {"KP"}] },
    requireRole :
      { NoCriteria.requireRole, attestationCriteria.requireRole,
        [present |-> TRUE, requiredRoles |-> {"data_analyst"},
         minimumVerificationLevel |-> "enhanced"],
        [present |-> TRUE, requiredRoles |-> {"real_estate_professional"},
         minimumVerificationLevel |-> "basic"] },
    requireIdentity :
      { NoCriteria.requireIdentity, attestationCriteria.requireIdentity,
        [present |-> TRUE, requireHuman |-> FALSE, requireUnique |-> FALSE,
         maxRiskScore |-> 0] } ]

ClaimsRange ==
  [ age : {NoClaims.age} \cup
          {a \in [present : {TRUE}, isOver18 : BOOLEAN, isOver21 : BOOLEAN] :
             a.isOver21 => a.isOver18},
    residency : {NoClaims.residency} \cup [present : {TRUE}, country : {"US", "KP", "FR"}],
    role : { NoClaims.role,
             [present |-> TRUE, isRealEstateProfessional |-> TRUE,
              verificationLevel |-> "enhanced"],
             [present |-> TRUE, isRealEstateProfessional |-> FALSE,
              verificationLevel |-> "basic"] },
    identity : { NoClaims.identity,
                 [present |-> TRUE, isHuman |-> TRUE, isUnique |-> TRUE, riskScore |-> 15],
                 [present |-> TRUE, isHuman |-> TRUE, isUnique |-> TRUE, riskScore |-> 85],
                 [present |-> TRUE, isHuman |-> FALSE, isUnique |-> FALSE, riskScore |-> 15] } ]

\* An answer that is not valid is taken with one set of claims: validateResult
\* does not look at them.
ResponseRange ==
  [isValid : {TRUE}, verifiedClaims : ClaimsRange]
  \cup {[isValid |-> FALSE, verifiedClaims |-> NoClientResult.verifiedClaims]}

\* verifyAttestation has answered: the client validates and returns.
VerifyComprehensiveReturns ==
  /\ av.pc = "verifyReq"
  /\ av' = [av EXCEPT !.pc = "returned",
                      !.result = verifyComprehensiveResult(av.response, av.criteria)]
  /\ UNCHANGED <<now, cfg, calls, loop, att, c2d, poll, main, meta, hist, svc, logs>>

\* executeAttestationStep receives the client's result and throws or returns.
AttestationStepDecides ==
  /\ av.pc = "returned"
  /\ av' = [av EXCEPT !.pc = "decided", !.error = AttestationStepError(av.result)]
  /\ UNCHANGED <<now, cfg, calls, loop, att, c2d, poll, main, meta, hist, svc, logs>>

InitAV ==
  /\ now = 0
  /\ cfg = [timeoutMs |-> defaultJobTimeoutMs, initError |-> NoError, USER_DID |-> <<>>,
            didOk |-> TRUE]
  /\ calls = [c \in CallIds |-> IdleCall]
  /\ loop = [pc |-> "idle", attempt |-> 0, due |-> 0, err |-> NoError]
  /\ att = [a \in AttemptIdx |-> [pc |-> "idle", due |-> 0]]
  /\ c2d = [a \in AttemptIdx |-> [pc |-> "idle", due |-> 0]]
  /\ poll = [a \in AttemptIdx |-> [pc |-> "idle", due |-> 0, status |-> "none", n |-> 0,
                                    maxEndTime |-> 0]]
  /\ main = [pc |-> "start", due |-> 0, result |-> NoJobResult]
  /\ meta = [status |-> "running", retryCount |-> 0, lastError |-> NoError]
  /\ hist = [attempts |-> 0, delays |-> 0, delaysDone |-> 0, fetches |-> 0,
             caught |-> {}, backoffs |-> {}, firedActive |-> {}, refused |-> FALSE,
             handed |-> <<>>, cancelAlls |-> <<>>, answered |-> FALSE]
  /\ svc = NoPolling
  /\ logs = NoLogs
  /\ \E criteria \in CriteriaRange, response \in ResponseRange :
       av = [NoVerification EXCEPT !.pc = "verifyReq", !.criteria = criteria,
                                   !.response = response]

NextAV ==
  \/ VerifyComprehensiveReturns
  \/ AttestationStepDecides

SpecAV == InitAV /\ [][NextAV]_vars

(***************************************************************************)
(* One pollJobStatus call on its own: an OceanC2DService with a given poll   *)
(* bound, and a collaborator that answers each status fetch as it pleases.  *)
(***************************************************************************)
\* config.timeoutMs of the service: what runJob passes for a short budget
\* (negative), and one and three poll intervals.
PollBounds ==
  {C2DServiceTimeoutMs(ShortBudgetMs), defaultPollIntervalMs, 3 * defaultPollIntervalMs}

\* statusData.status as the collaborator may send it
OceanStatuses ==
  {"pending", "queued", "running", "in_progress", "completed", "finished", "success",
   "failed", "error", "cancelled", "canceled", "FAILED", "Completed", "timeout",
   "paused", NoOceanStatus}

StatusAnswers ==
  {[ok |-> TRUE, status |-> oceanStatus] : oceanStatus \in OceanStatuses}
  \cup {[ok |-> FALSE, status |-> NoOceanStatus]}

\* pollJobStatus is called: startTime, maxEndTime, and the first pass of the loop.
PollJobStatusCalled ==
  /\ svc.pc = "called"
  /\ \E lat \in Latencies :
       svc' = pollJobStatusLoop([svc EXCEPT !.maxEndTime = now + svc.timeoutMs], now, lat)
  /\ UNCHANGED <<now, cfg, calls, loop, att, c2d, poll, main, meta, hist, av, logs>>

\* getJobStatus returns: the collaborator answered, or the fetch failed and the
\* catch block simulated a status.
GetJobStatusReturns ==
  /\ svc.pc = "fetch"
  /\ svc.due <= now
  /\ \E answer \in StatusAnswers :
       svc' = pollJobStatusBody(svc, answer, getJobStatus(answer, now), now)
  /\ UNCHANGED <<now, cfg, calls, loop, att, c2d, poll, main, meta, hist, av, logs>>

\* sleep(pollIntervalMs) resolves and the loop condition is tested again.
PollSleepResolves ==
  /\ svc.pc = "sleep"
  /\ svc.due <= now
  /\ \E lat \in Latencies : svc' = pollJobStatusLoop(svc, now, lat)
  /\ UNCHANGED <<now, cfg, calls, loop, att, c2d, poll, main, meta, hist, av, logs>>

InitPoll ==
  /\ now = 0
  /\ cfg = [timeoutMs |-> defaultJobTimeoutMs, initError |-> NoError, USER_DID |-> <<>>,
            didOk |-> TRUE]
  /\ calls = [c \in CallIds |-> IdleCall]
  /\ loop = [pc |-> "idle", attempt |-> 0, due |-> 0, err |-> NoError]
  /\ att = [a \in AttemptIdx |-> [pc |-> "idle", due |-> 0]]
  /\ c2d = [a \in AttemptIdx |-> [pc |-> "idle", due |-> 0]]
  /\ poll = [a \in AttemptIdx |-> [pc |-> "idle", due |-> 0, status |-> "none", n |-> 0,
                                    maxEndTime |-> 0]]
  /\ main = [pc |-> "start", due |-> 0, result |-> NoJobResult]
  /\ meta = [status |-> "running", retryCount |-> 0, lastError |-> NoError]
  /\ hist = [attempts |-> 0, delays |-> 0, delaysDone |-> 0, fetches |-> 0,
             caught |-> {}, backoffs |-> {}, firedActive |-> {}, refused |-> FALSE,
             handed |-> <<>>, cancelAlls |-> <<>>, answered |-> FALSE]
  /\ av = NoVerification
  /\ logs = NoLogs
  /\ \E timeoutMs \in PollBounds :
       svc = [NoPolling EXCEPT !.pc = "called", !.timeoutMs = timeoutMs]

NextPoll ==
  \/ PollJobStatusCalled
  \/ GetJobStatusReturns
  \/ PollSleepResolves
  \/ Advance

SpecPoll == InitPoll /\ [][NextPoll]_vars

\* Timers fire and requests settle: the event loop runs whatever is due.
SpecPollLive == SpecPoll /\ WF_vars(NextPoll)

(***************************************************************************)
(* The recorder on its own: persistJobData called again and again, one call  *)
(* after the other, on a logs directory that may already hold a history.    *)
(***************************************************************************)
MaxPersists == 3

\* Histories left by earlier runs: none, one short of the limit, at the limit.
HistorySizes == {0, maxHistoryJobs - 1, maxHistoryJobs}

\* What the file system does during one persistJobData call.
FsOutcomes == {"ok", "jobFileFails", "historyReadFails", "historyWriteFails"}

\* The history after n jobs persisted one after the other: all of them
\* successful, none of them, or those with an odd number.
HistoryOf(n, pattern) ==
  LET Succeeded(k) == CASE pattern = "all" -> TRUE
                        [] pattern = "none" -> FALSE
                        [] OTHER -> k % 2 = 1
      jobs == [i \in 1..n |-> [jobId |-> n + 1 - i, success |-> Succeeded(n + 1 - i)]]
  IN  [jobs |-> jobs, summary |-> historySummary(jobs)]

\* persistJobData(metadata, result) runs to its end: the job file and
\* latest.json, then updateJobHistory, whose own errors are only logged.
PersistJobDataCalled ==
  /\ logs.calls < MaxPersists
  /\ \E success \in BOOLEAN, fs \in FsOutcomes :
       LET jobEntry == [jobId |-> Len(logs.persisted) + 1, success |-> success]
           read == IF logs.exists /\ fs # "historyReadFails" THEN logs.history
                   ELSE emptyHistory
           written == updateJobHistory(read, jobEntry)
           called == [logs EXCEPT !.calls = @ + 1]
       IN  /\ fs = "historyReadFails" => logs.exists
           /\ logs' =
                CASE fs = "jobFileFails" -> called
                  [] fs = "historyWriteFails" ->
                       [called EXCEPT !.persisted = <<jobEntry>> \o @, !.intact = FALSE]
                  [] fs = "historyReadFails" ->
                       [called EXCEPT !.persisted = <<jobEntry>> \o @, !.intact = FALSE,
                                      !.history = written]
                  [] OTHER ->
                       [called EXCEPT !.persisted = <<jobEntry>> \o @, !.exists = TRUE,
                                      !.history = written]
  /\ UNCHANGED <<now, cfg, calls, loop, att, c2d, poll, main, meta, hist, av, svc>>

InitHist ==
  /\ now = 0
  /\ cfg = [timeoutMs |-> defaultJobTimeoutMs, initError |-> NoError, USER_DID |-> <<>>,
            didOk |-> TRUE]
  /\ calls = [c \in CallIds |-> IdleCall]
  /\ loop = [pc |-> "idle", attempt |-> 0, due |-> 0, err |-> NoError]
  /\ att = [a \in AttemptIdx |-> [pc |-> "idle", due |-> 0]]
  /\ c2d = [a \in AttemptIdx |-> [pc |-> "idle", due |-> 0]]
  /\ poll = [a \in AttemptIdx |-> [pc |-> "idle", due |-> 0, status |-> "none", n |-> 0,
                                    maxEndTime |-> 0]]
  /\ main = [pc |-> "start", due |-> 0, result |-> NoJobResult]
  /\ meta = [status |-> "running", retryCount |-> 0, lastError |-> NoError]
  /\ hist = [attempts |-> 0, delays |-> 0, delaysDone |-> 0, fetches |-> 0,
             caught |-> {}, backoffs |-> {}, firedActive |-> {}, refused |-> FALSE,
             handed |-> <<>>, cancelAlls |-> <<>>, answered |-> FALSE]
  /\ av = NoVerification
  /\ svc = NoPolling
  /\ \E n \in HistorySizes, pattern \in {"all", "none", "odd"} :
       LET history == HistoryOf(n, pattern)
       IN  logs = [NoLogs EXCEPT !.exists = n > 0, !.history = history,
                                 !.persisted = history.jobs]

NextHist == PersistJobDataCalled

SpecHist == InitHist /\ [][NextHist]_vars

(***************************************************************************)
(* Properties                                                              *)
(***************************************************************************)
RunReturned == main.pc = "returned"
PhaseError(c) == calls[c].wres.error
PhaseFailed(c) == calls[c].st = "returned" /\ ~calls[c].wres.success
TimeoutClassified(r) == ~r.success /\ r.timedOut /\ r.cancelled

\* C1: when the timer of an executeWithTimeout call fires while the call is
\* still racing, the call returns at its deadline with success=false,
\* timedOut=true, cancelled=true and an aborted signal, and it does not wait for
\* the guarded operation: the operation is still pending, or it settled only
\* after the signal was aborted.
C1_TimerFiresCallReturns ==
  \A c \in hist.firedActive :
    /\ calls[c].st = "returned"
    /\ calls[c].retAt = Deadline(calls[c])
    /\ TimeoutClassified(calls[c].res)
    /\ TimeoutClassified(calls[c].wres)
    /\ calls[c].aborted
    /\ calls[c].op.outcome # "pending" => calls[c].op.aborted

\* An attestation call has timed out, then the job call, whose operation (the
\* attempt loop) has still not settled.
C1_Witness ==
  /\ JOB \in hist.firedActive
  /\ calls[JOB].op.outcome = "pending"
  /\ \E c \in AttCalls : c \in hist.firedActive

\* C2: when the guarded operation resolves while its signal is not aborted
\* (the timer has not fired and nobody cancelled), the call returns
\* success=true, timedOut=false, cancelled=false with exactly the operation's
\* value, and the wrapper passes that result on unchanged.
C2_SuccessKeepsValue ==
  \A c \in CallIds :
    (calls[c].op.outcome = "resolved" /\ ~calls[c].op.aborted) =>
      /\ calls[c].st = "returned"
      /\ calls[c].res.success
      /\ ~calls[c].res.timedOut
      /\ ~calls[c].res.cancelled
      /\ calls[c].res.error = NoError
      /\ calls[c].res.result = calls[c].op.value
      /\ calls[c].wres = calls[c].res

\* The job call, an attestation call and a compute call have all returned the
\* value their operation produced.
C2_Witness ==
  /\ calls[JOB].op.outcome = "resolved" /\ ~calls[JOB].op.aborted
  /\ calls[JOB].res.result.kind = "job"
  /\ \E a \in AttemptIdx :
       /\ calls[AttCall(a)].op.outcome = "resolved" /\ ~calls[AttCall(a)].op.aborted
       /\ calls[AttCall(a)].res.result = AttestationValue(TRUE)
       /\ calls[C2DCall(a)].op.outcome = "resolved" /\ ~calls[C2DCall(a)].op.aborted
       /\ calls[C2DCall(a)].res.result = C2DValue("completed")

\* The attempt loop has ended with an error, the job timer has not fired, and
\* the attestation phase of every attempt that was started failed with an
\* error accepted by Accepts.
EveryAttestationFailed(Accepts(_)) ==
  /\ loop.pc = "rejected"
  /\ calls[JOB].timer # "fired"
  /\ \A a \in AttemptIdx :
       a < hist.attempts => PhaseFailed(AttCall(a)) /\ Accepts(PhaseError(AttCall(a)))

ExhaustedRetries ==
  /\ hist.attempts = maxRetries + 1
  /\ hist.delays = maxRetries
  /\ hist.delaysDone = maxRetries
  /\ calls[JOB].st = "returned"
  /\ ~calls[JOB].wres.success

AllowListed(e) == ErrCategory(e) \in retryableErrorCategories
RetryableAllowListed(e) == ErrRetryable(e) /\ AllowListed(e)

C4_NonRetryableShortCircuit ==
  \A k \in hist.caught :
    ErrCategory(k.error) \in {"authorization", "configuration"} =>
      /\ k.attempt \notin hist.backoffs
      /\ hist.attempts = k.attempt + 1
      /\ hist.delays = k.attempt
      /\ loop.pc = "rejected"
      /\ loop.err = k.error

\* An authorization failure on the first attempt, whose catalog record even
\* carries retryable=true, ended the run after one attempt.
C4_Witness ==
  /\ [attempt |-> 0, error |-> "INSUFFICIENT_ROLE_LEVEL"] \in hist.caught
  /\ hist.attempts = 1
  /\ hist.delays = 0
  /\ RunReturned

\* C5: a phase whose own timer fired (timedOut=true) is followed by no backoff
\* and by no further attempt.
C5_PhaseTimeoutNotRetried ==
  \A a \in AttemptIdx : \A c \in {AttCall(a), C2DCall(a)} :
    (PhaseFailed(c) /\ calls[c].wres.timedOut /\ c \in hist.firedActive) =>
      /\ a \notin hist.backoffs
      /\ hist.attempts = a + 1

RetryCondition(k) ==
  /\ ErrRetryable(k.error)
  /\ ErrCategory(k.error) \in retryableErrorCategories
  /\ k.attempt < maxRetries

RetryConditionAsStated(k) ==
  /\ ErrCategory(k.error) \in retryableErrorCategories
  /\ k.attempt < maxRetries

\* What follows a caught phase error, given the condition under which a
\* backoff is started: with the condition a backoff, and after it (unless the
\* job signal is aborted meanwhile) the next attempt; without it no backoff, no
\* further attempt, and the error leaves the loop.
RetryDecision(Condition(_)) ==
  \A k \in hist.caught :
    /\ k.attempt \in hist.backoffs <=> Condition(k)
    /\ hist.attempts > k.attempt + 1 => k.attempt \in hist.backoffs
    /\ k.attempt \notin hist.backoffs =>
         /\ loop.pc = "rejected"
         /\ loop.err = k.error
         /\ hist.attempts = k.attempt + 1
    /\ (k.attempt \in hist.backoffs /\ ~calls[JOB].aborted) =>
         \/ loop.pc = "backoff" /\ loop.attempt = k.attempt
         \/ hist.attempts > k.attempt + 1

BothPhasesSucceeded(a) ==
  /\ calls[AttCall(a)].st = "returned"
  /\ calls[AttCall(a)].wres.success
  /\ calls[AttCall(a)].wres.result = AttestationValue(TRUE)
  /\ calls[C2DCall(a)].st = "returned"
  /\ calls[C2DCall(a)].wres.success

\* C7: the compute phase of an attempt is started (and its requests issued)
\* only after the attestation phase of the same attempt returned a valid
\* attestation, and the run reports success only if both phases of one attempt
\* succeeded.
C7_PhaseOrdering ==
  /\ \A a \in AttemptIdx :
       (calls[C2DCall(a)].st # "idle" \/ c2d[a].pc # "idle" \/ poll[a].pc # "idle") =>
         /\ calls[AttCall(a)].st = "returned"
         /\ calls[AttCall(a)].wres.success
         /\ calls[AttCall(a)].wres.result = AttestationValue(TRUE)
  /\ (calls[JOB].wres.success \/ main.result.success) =>
       \E a \in AttemptIdx : BothPhasesSucceeded(a)

\* A successful run whose successful attempt was a retry.
C7_Witness ==
  /\ RunReturned
  /\ main.result.success
  /\ hist.attempts = 2
  /\ BothPhasesSucceeded(1)
  /\ calls[C2DCall(0)].st = "idle"

\* C8: once the job timer has fired during the attempt loop, run() returns
\* success=false, timedOut=true with JOB_TIMEOUT, and the metadata handed to
\* the recorder has status "timeout".
C8_JobTimeoutResult ==
  (JOB \in hist.firedActive /\ main.pc \in {"returned", "threw"}) =>
    /\ RunReturned
    /\ ~main.result.success
    /\ main.result.timedOut
    /\ main.result.error = "JOB_TIMEOUT"
    /\ \A i \in DOMAIN hist.handed : hist.handed[i].metadata.status = "timeout"

\* C9: a run in which no collaborator answered negatively and the recorder
\* worked, and which still did not succeed, was stopped by its time budget; it
\* returns timedOut=true with status "timeout".
C9_BudgetExceededIsTimeout ==
  ( /\ RunReturned
    /\ cfg.initError = NoError /\ cfg.didOk
    /\ ~hist.refused
    /\ Len(hist.handed) = 1
    /\ ~main.result.success ) =>
      /\ main.result.timedOut
      /\ hist.handed[1].metadata.status = "timeout"

\* C10: every metadata handed to the recorder has status completed, failed or
\* timeout; it is completed exactly when the returned result has success=true
\* and timeout exactly when the returned result has timedOut=true.
C10_FinalStatus ==
  \A i \in DOMAIN hist.handed :
    /\ hist.handed[i].metadata.status \in {"completed", "failed", "timeout"}
    /\ RunReturned =>
         /\ hist.handed[i].metadata.status = "completed" <=> main.result.success
         /\ hist.handed[i].metadata.status = "timeout" <=> main.result.timedOut

RunEnded == main.pc \in {"returned", "threw"}

\* C11: once run() has returned (or thrown), the registry of the
\* TimeoutManager is empty, the signal of every nested call that has not
\* returned yet is aborted, and nothing is registered any more.
C11_CleanupAtJobEnd ==
  RunEnded =>
    /\ getActiveOperationsCount(St) = 0
    /\ \A c \in CallIds : calls[c].st = "active" => calls[c].aborted

\* run() has returned after its finally block cancelled a phase call that was
\* still in flight, and the operation of that call is still running.
C11_Witness ==
  /\ RunReturned
  /\ \E c \in AttCalls \cup C2DCalls :
       /\ calls[c].st = "active"
       /\ calls[c].timer = "cleared"
       /\ calls[c].op.outcome = "pending"

PhaseCalls == AttCalls \cup C2DCalls

\* C12: once the job signal is aborted, no step starts an attestation phase
\* or a compute phase, no backoff is in progress and no backoff runs to its
\* end.
C12_NoPhaseAfterCancellation ==
  [][ calls'[JOB].aborted =>
        /\ \A c \in PhaseCalls : calls[c].st = "idle" => calls'[c].st = "idle"
        /\ loop'.pc # "backoff"
        /\ hist'.delaysDone = hist.delaysDone ]_vars

\* The job timer fired during an attestation phase; the attestation then
\* returned a valid result, and the attempt ended with OPERATION_CANCELLED
\* instead of starting its compute phase.
C12_Witness ==
  /\ JOB \in hist.firedActive
  /\ \E a \in AttemptIdx :
       /\ calls[AttCall(a)].st = "returned"
       /\ calls[AttCall(a)].wres.success
       /\ calls[AttCall(a)].retAt > Deadline(calls[JOB])
       /\ calls[C2DCall(a)].st = "idle"
       /\ [attempt |-> a, error |-> "OPERATION_CANCELLED"] \in hist.caught

\* C13: once the job signal is aborted, a phase operation that is in flight
\* issues no further collaborator request: no attestation request after the
\* proof request, no further request of the compute service's initialisation,
\* no job submission, no further status fetch.
C13_PromptAbort ==
  [][ calls[JOB].aborted =>
        \A a \in AttemptIdx :
          /\ att'[a].pc = "verifyReq" => att[a].pc = "verifyReq"
          /\ c2d'[a].pc \in {"meta1", "meta2", "submit"} => c2d'[a].pc = c2d[a].pc
          /\ poll'[a].pc = "fetch" => poll[a].pc = "fetch" ]_vars

AttestationInFlight(a) == att[a].pc \in {"proofReq", "verifyReq"}
ComputeInFlight(a) ==
  \/ c2d[a].pc \in {"health", "meta1", "meta2", "submit", "monitor"}
  \/ poll[a].pc \in {"fetch", "sleep"}

\* C14: at every moment at most one attestation operation and at most one
\* compute / polling operation is executing.
C14_NoSelfOverlap ==
  /\ Cardinality({a \in AttemptIdx : AttestationInFlight(a)}) <= 1
  /\ Cardinality({a \in AttemptIdx : ComputeInFlight(a)}) <= 1

ResultEnvelope(r) ==
  \/ r.success /\ r.result # NoOpValue /\ r.error = NoError
  \/ ~r.success /\ r.result = NoOpValue /\ r.error # NoError

\* C15: every result returned by executeWithTimeout, and every result passed
\* on by executeJob, executeAttestation or executeC2D, is either success=true
\* with a result and no error, or success=false with an error and no result.
C15_ResultEnvelope ==
  \A c \in CallIds :
    calls[c].st = "returned" =>
      /\ ResultEnvelope(calls[c].res)
      /\ ResultEnvelope(calls[c].wres)

\* A run in which calls returned on the success path, on the timeout path and
\* on the failure path.
C15_Witness ==
  /\ \E c \in CallIds : calls[c].st = "returned" /\ calls[c].res.success
  /\ \E c \in CallIds : calls[c].st = "returned" /\ calls[c].res.timedOut
  /\ \E c \in CallIds :
       calls[c].st = "returned" /\ ~calls[c].res.success /\ ~calls[c].res.timedOut

\* The token of call c was cancelled from outside while its timer was still
\* pending, and the guarded operation failed afterwards.
CancelledFromOutsideThenFailed(c) ==
  /\ calls[c].st = "returned"
  /\ calls[c].timer = "cleared"
  /\ calls[c].op.outcome = "rejected"
  /\ calls[c].op.aborted

\* C16: a call whose token was cancelled from outside before its own timer
\* fired, and whose operation then failed, returns cancelled=true and
\* timedOut=false.
C16_CancelledNotTimedOut ==
  \A c \in CallIds :
    CancelledFromOutsideThenFailed(c) =>
      /\ ~calls[c].res.success
      /\ calls[c].res.cancelled
      /\ ~calls[c].res.timedOut

\* C17: once a call of executeWithTimeout has returned, whatever its outcome,
\* the registry holds no entry for it; with no call in flight
\* getActiveOperationsCount() is 0.
C17_GuaranteedRelease ==
  /\ \A c \in CallIds : calls[c].st = "returned" => ~calls[c].registered
  /\ (\A c \in CallIds : calls[c].st # "active") => getActiveOperationsCount(St) = 0

\* Calls have returned on each path: success, own timer, failure of the
\* operation, cancellation from outside; none is in flight any more.
C17_Witness ==
  /\ \A c \in CallIds : calls[c].st # "active"
  /\ \E c \in CallIds : calls[c].st = "returned" /\ calls[c].res.success
  /\ \E c \in CallIds : calls[c].st = "returned" /\ c \in hist.firedActive
  /\ \E c \in CallIds :
       calls[c].st = "returned" /\ ~calls[c].res.success /\ ~calls[c].aborted
  /\ \E c \in CallIds : CancelledFromOutsideThenFailed(c)

\* The guarded operation of call c settled, and the call returned, before the
\* call's timer expired.
SettledBeforeExpiry(c) ==
  /\ calls[c].st = "returned"
  /\ calls[c].op.outcome # "pending"
  /\ ~calls[c].op.aborted
  /\ calls[c].retAt < Deadline(calls[c])

\* C18: when the guarded operation settles before expiry, the call's timer is
\* cancelled, so it never signals the call's token afterwards; after runJob
\* has returned no timer of the TimeoutManager is pending.
C18_TimerCancelledOnCompletion ==
  /\ \A c \in CallIds :
       SettledBeforeExpiry(c) => calls[c].timer \notin {"pending", "fired"} /\ ~calls[c].aborted
  /\ RunReturned => \A c \in CallIds : calls[c].timer # "pending"

\* A step in which cancelAllOperations was called.
CancelAllCalled == Len(hist'.cancelAlls) = Len(hist.cancelAlls) + 1

\* C19: cancelAllOperations, called with any number of registered operations
\* (zero included), can always be called, aborts the token of every registered
\* operation and leaves the registry empty; a second call changes nothing.
C19_CancelAllSafeIdempotent ==
  /\ [](Len(hist.cancelAlls) < MaxCancels => ENABLED CallerCancelsAll)
  /\ [][ CancelAllCalled =>
           /\ \A c \in CallIds : calls[c].registered => calls'[c].aborted
           /\ \A c \in CallIds : ~calls'[c].registered
           /\ getActiveOperationsCount(St)' = 0
           /\ cancelAllOperations(St, FastLatencyMs)'.calls = calls'
           /\ (getActiveOperationsCount(St) = 0 => calls' = calls) ]_vars

\* cancelAllOperations was called with two operations registered, with one,
\* and with none.
C19_Witness ==
  /\ \E i \in DOMAIN hist.cancelAlls : hist.cancelAlls[i] = 2
  /\ \E i \in DOMAIN hist.cancelAlls : hist.cancelAlls[i] = 0
  /\ \A c \in TMSlots : calls[c].aborted /\ calls[c].timer = "cleared"

\* C20: a timed-out result returned by executeJob, executeAttestation or
\* executeC2D carries JOB_TIMEOUT, ATTESTATION_TIMEOUT or C2D_TIMEOUT
\* respectively (and is otherwise what executeWithTimeout produced); a result
\* that is not timed out is returned exactly as executeWithTimeout produced it.
C20_TimeoutRetagging ==
  \A c \in CallIds :
    calls[c].st = "returned" /\ calls[c].wrapper # "none" =>
      /\ calls[c].wres.timedOut = calls[c].res.timedOut
      /\ calls[c].wres.timedOut =>
           /\ calls[c].wres.error = createAttestationError(
                 CASE c = JOB -> "JOB_TIMEOUT"
                   [] c \in AttCalls -> "ATTESTATION_TIMEOUT"
                   [] c \in C2DCalls -> "C2D_TIMEOUT")
           /\ calls[c].wres = [calls[c].res EXCEPT !.error = calls[c].wres.error]
      /\ ~calls[c].wres.timedOut => calls[c].wres = calls[c].res

\* A wrapper replaced the error of a timed-out result by its own code, and
\* another result, not timed out, went through a wrapper.
C20_Witness ==
  /\ \E c \in CallIds :
       /\ calls[c].st = "returned" /\ calls[c].res.timedOut
       /\ calls[c].res.error # calls[c].wres.error
  /\ \E c \in CallIds :
       /\ calls[c].st = "returned" /\ ~calls[c].res.timedOut
       /\ ~calls[c].res.success

\* TimeoutManager.delay(retryDelayMs, signal) of the attempt loop is pending.
DelayPending == loop.pc = "backoff"
DelayCalled == hist'.delays = hist.delays + 1
DelayResolved == hist'.delaysDone = hist.delaysDone + 1
DelayFailedCancelled ==
  /\ hist'.delaysDone = hist.delaysDone
  /\ calls'[JOB].op.outcome = "rejected"
  /\ calls'[JOB].op.error = createAttestationError("OPERATION_CANCELLED")

\* C21: delay(ms, token) resolves after ms only if the token is not cancelled
\* before then; called with a cancelled token, or when the token is cancelled
\* while it waits, it fails with OPERATION_CANCELLED at that moment and never
\* resolves; it never both resolves and fails.
C21_CancellableDelay ==
  /\ [](DelayPending => ~calls[JOB].aborted /\ now <= loop.due)
  /\ [][ DelayCalled =>
           IF calls[JOB].aborted
           THEN ~DelayPending' /\ DelayFailedCancelled
           ELSE DelayPending' /\ loop'.due = now + retryDelayMs /\ ~DelayResolved ]_vars
  /\ [][ DelayPending /\ ~DelayCalled /\ (~DelayPending' \/ DelayResolved) =>
           \/ /\ DelayResolved
              /\ now = loop.due
              /\ ~calls[JOB].aborted
           \/ /\ DelayFailedCancelled
              /\ ~DelayPending'
              /\ calls'[JOB].aborted
              /\ now <= loop.due ]_vars

\* The job token was cancelled while the delay before a retry was waiting.
C21_Witness ==
  /\ hist.delays = 1
  /\ hist.delaysDone = 0
  /\ JOB \in hist.firedActive
  /\ loop.pc = "rejected"
  /\ loop.err = createAttestationError("OPERATION_CANCELLED")
  /\ calls[JOB].op.outcome = "rejected"

\* The collaborator answered isValid=true with an age claim that is not over
\* 18 while the criteria ask for a minimum age.
LenientOnAge ==
  /\ av.criteria.requireAge.present
  /\ av.criteria.requireAge.minimumAge > 0
  /\ av.response.isValid
  /\ av.response.verifiedClaims.age.present
  /\ ~av.response.verifiedClaims.age.isOver18

\* C22: when a minimum age is requested and the collaborator answers
\* isValid=true with age.isOver18=false, the client returns isValid=false with
\* failure details naming the age check, and the attestation step fails with
\* UNDER_MINIMUM_AGE.
C22_LocalPolicyOverridesAge ==
  LenientOnAge =>
    /\ av.pc \in {"returned", "decided"} =>
         /\ ~av.result.isValid
         /\ av.result.hasFailureDetails
         /\ \E i \in DOMAIN av.result.failedChecks :
              av.result.failedChecks[i] = "minimum age requirement not met"
    /\ av.pc = "decided" => av.error = createAttestationError("UNDER_MINIMUM_AGE")

\* The step has decided on such an answer, whose other claims meet the
\* criteria of the program.
C22_Witness ==
  /\ av.pc = "decided"
  /\ LenientOnAge
  /\ av.criteria = attestationCriteria
  /\ Len(av.result.failedChecks) = 1

\* The requested criteria as they read on the returned claims.  The age claim
\* tells whether the subject is over 18 and over 21; the role claim tells
\* whether the subject is a real-estate professional.
AgeHolds(criteria, claims) ==
  criteria.requireAge.present /\ criteria.requireAge.minimumAge > 0 =>
    /\ claims.age.present
    /\ claims.age.isOver18
    /\ criteria.requireAge.minimumAge > 18 => claims.age.isOver21

ResidencyHolds(criteria, claims) ==
  criteria.requireResidency.present =>
    /\ claims.residency.present
    /\ criteria.requireResidency.allowedCountries # {} =>
         claims.residency.country \in criteria.requireResidency.allowedCountries
    /\ claims.residency.country \notin criteria.requireResidency.blockedCountries

RoleHolds(criteria, claims) ==
  criteria.requireRole.present =>
    /\ claims.role.present
    /\ claims.role.isRealEstateProfessional
    /\ "real_estate_professional" \in criteria.requireRole.requiredRoles
    /\ levelRanking(claims.role.verificationLevel)
         >= levelRanking(criteria.requireRole.minimumVerificationLevel)

IdentityHolds(criteria, claims) ==
  criteria.requireIdentity.present =>
    /\ claims.identity.present
    /\ criteria.requireIdentity.requireHuman => claims.identity.isHuman
    /\ criteria.requireIdentity.requireUnique => claims.identity.isUnique
    /\ criteria.requireIdentity.maxRiskScore > 0 =>
         claims.identity.riskScore <= criteria.requireIdentity.maxRiskScore

\* C23: verifyComprehensive returns isValid=true only if the collaborator
\* reported valid and every requested criterion holds on the returned claims:
\* minimum age, allow-list and block-list of countries, role in the required
\* set with the minimum verification level, human and unique flags, ceiling
\* of the risk score.
C23_CompletePostValidation ==
  av.pc \in {"returned", "decided"} /\ av.result.isValid =>
    /\ av.response.isValid
    /\ AgeHolds(av.criteria, av.response.verifiedClaims)
    /\ ResidencyHolds(av.criteria, av.response.verifiedClaims)
    /\ RoleHolds(av.criteria, av.response.verifiedClaims)
    /\ IdentityHolds(av.criteria, av.response.verifiedClaims)

\* The subject id of this run is empty or malformed.
SubjectIdMalformed ==
  LET userDid == userDidOf(cfg.USER_DID)
  IN  Len(trim(userDid)) = 0 \/ ~startsWith(userDid, <<"d", "i", "d", ":">>)

\* C24: with an empty or malformed subject id, verifyComprehensive fails with
\* INVALID_DID, which is not retryable, before any proof request or
\* attestation request is made, and the job ends after exactly one attempt.
C24_SubjectIdPrecondition ==
  cfg.initError = NoError /\ SubjectIdMalformed =>
    /\ \A a \in AttemptIdx : ~AttestationInFlight(a)
    /\ \A c \in AttCalls :
         calls[c].st # "idle" =>
           /\ calls[c].st = "returned"
           /\ calls[c].res.error = createAttestationError("INVALID_DID")
           /\ ~ErrRetryable(calls[c].res.error)
    /\ hist.delays = 0
    /\ calls[JOB].st # "idle" =>
         /\ hist.attempts = 1
         /\ calls[JOB].st = "returned"
         /\ calls[JOB].res.error = createAttestationError("INVALID_DID")

\* runJob has returned the INVALID_DID failure of its only attempt.
C24_Witness ==
  /\ RunReturned
  /\ cfg.initError = NoError
  /\ SubjectIdMalformed
  /\ hist.attempts = 1
  /\ main.result.error = createAttestationError("INVALID_DID")

\* The collaborator answered isValid=true with a country of the block-list,
\* under the criteria of the program, every other claim meeting them.
BlockedCountryAnswer ==
  /\ av.criteria = attestationCriteria
  /\ av.response.isValid
  /\ av.response.verifiedClaims.residency.present
  /\ av.response.verifiedClaims.residency.country
       \in av.criteria.requireResidency.blockedCountries
  /\ AgeChecks(av.response, av.criteria) = <<>>
  /\ RoleChecks(av.response, av.criteria) = <<>>
  /\ IdentityChecks(av.response, av.criteria) = <<>>

\* C25: when the collaborator returns a country of the block-list (KP), the
\* attestation phase fails with COUNTRY_BLOCKED, which is an authorization
\* error and not retryable, so that the job fails after one attempt.
C25_BlockedCountry ==
  BlockedCountryAnswer /\ av.pc = "decided" =>
    /\ av.error = createAttestationError("COUNTRY_BLOCKED")
    /\ ~shouldRetry(0, av.error)

\* C26: when runJob ends in a failure caused by a phase error, the metadata
\* it hands to the recorder has lastError set, with the code of the error
\* that ended the job.
C26_PersistedLastError ==
  \A i \in DOMAIN hist.handed :
    LET h == hist.handed[i]
    IN  ~h.result.success /\ ~h.result.timedOut /\ h.result.error # NoError =>
          /\ h.metadata.lastError # NoError
          /\ h.metadata.lastError = h.result.error

\* Scenario A: the subject id is "user-1", the configuration is complete, no
\* collaborator answered negatively, no timer of the run fired during its
\* call and the recorder worked.
ScenarioA ==
  /\ cfg.USER_DID = <<"u", "s", "e", "r", "-", "1">>
  /\ cfg.initError = NoError
  /\ ~hist.refused
  /\ hist.firedActive = {}
  /\ Len(hist.handed) = 1

\* C27: in scenario A (subject id "user-1", a collaborator that confirms the
\* claims, a compute job that completes within the budgets) runJob returns
\* success and the metadata's status is "completed".
C27_HappyPath ==
  ScenarioA /\ RunReturned =>
    /\ main.result.success
    /\ hist.handed[1].metadata.status = "completed"

\* The compute step of attempt a failed on its merits: the compute job ended
\* in status "failed" and the call of executeC2D returned that failure, not a
\* timeout or a cancellation.
ComputeFailedOnMerits(a) ==
  /\ poll[a].status = "failed"
  /\ calls[C2DCall(a)].st = "returned"
  /\ ~calls[C2DCall(a)].res.success
  /\ ~calls[C2DCall(a)].res.timedOut

\* C28: when the compute step fails on its merits and attempts remain, the
\* orchestrator awaits the backoff and starts a new attempt, as it does for an
\* attestation failure.
C28_ComputePhaseRetry ==
  \A a \in AttemptIdx :
    ComputeFailedOnMerits(a) /\ a < maxRetries /\ ~calls[JOB].aborted =>
      /\ a \in hist.backoffs
      /\ loop.pc = "backoff" \/ hist.attempts > a + 1


\* The statuses the status fetches of the call have yielded so far, in order.
FetchedStatuses == [i \in 1..Len(svc.fetched) |-> svc.fetched[i].status]

ReportedTerminal(status) == status \in {"completed", "failed", "cancelled"}

\* C29: pollJobStatus returns the first terminal status.  Every fetch issued is
\* answered before the next one is issued; a fetch whose status is completed,
\* failed or cancelled is the last fetch of the call, and the call has returned
\* exactly that status; a call that returned anything but the synthetic
\* "timeout" returned the status of its last fetch, which is terminal, so no
\* earlier non-terminal status is ever returned; and when the fetches yield
\* queued, running, completed the call returns completed on the third fetch.
C29_FirstTerminalStatus ==
  /\ svc.n = Len(svc.fetched) + (IF svc.pc = "fetch" THEN 1 ELSE 0)
  /\ \A i \in 1..Len(svc.fetched) :
       ReportedTerminal(FetchedStatuses[i]) =>
         /\ i = Len(svc.fetched)
         /\ svc.n = i
         /\ svc.pc = "returned"
         /\ svc.status = FetchedStatuses[i]
  /\ svc.pc = "returned" /\ svc.status # "timeout" =>
       /\ svc.fetched # <<>>
       /\ svc.status = FetchedStatuses[Len(svc.fetched)]
       /\ ReportedTerminal(svc.status)
  /\ Len(svc.fetched) >= 3 /\ SubSeq(FetchedStatuses, 1, 3) = <<"queued", "running", "completed">> =>
       svc.pc = "returned" /\ svc.status = "completed" /\ svc.n = 3

\* queued, running, completed: returned on the third fetch.
C29_Witness ==
  /\ svc.pc = "returned"
  /\ svc.status = "completed"
  /\ svc.n = 3
  /\ FetchedStatuses = <<"queued", "running", "completed">>

PollBoundExpiredUnanswered ==
  /\ now >= svc.maxEndTime
  /\ \A i \in 1..Len(svc.fetched) : ~ReportedTerminal(FetchedStatuses[i])

\* C30: the polling timeout is a value, not an exception.  pollJobStatus never
\* raises; it eventually returns, whatever the collaborator answers and even
\* when status fetches fail; once it has returned, its status is "timeout"
\* exactly when the poll bound has expired and no fetch yielded a terminal
\* status; and no status fetch ever yields "timeout", whatever the collaborator
\* reported.
C30_TimeoutIsAValue ==
  /\ [](/\ svc.pc # "threw"
        /\ svc.pc = "returned" => (svc.status = "timeout" <=> PollBoundExpiredUnanswered)
        /\ svc.pc # "returned" => svc.status # "timeout"
        /\ \A i \in 1..Len(svc.fetched) : FetchedStatuses[i] # "timeout")
  /\ <>(svc.pc = "returned")

\* The bound expired after the collaborator itself had reported "timeout".
C30_Witness ==
  /\ svc.pc = "returned"
  /\ svc.status = "timeout"
  /\ \E i \in 1..Len(svc.fetched) :
       svc.fetched[i].answer = [ok |-> TRUE, status |-> "timeout"]


\* C31: the recorder is a pure observer.  Once run() has ended after handing
\* its result to the recorder, it has returned (not failed), and what it
\* returned is the result it first handed over, whether or not persistJobData
\* succeeded: same success flag, error and timedOut.
C31_RecorderPureObserver ==
  (RunEnded /\ hist.handed # <<>>) =>
    /\ RunReturned
    /\ main.result.success = hist.handed[1].result.success
    /\ main.result.error = hist.handed[1].result.error
    /\ main.result.timedOut = hist.handed[1].result.timedOut


\* C32: user-visible failures.  Every result run() returns with success=false
\* carries an error object: an error of the catalog, which has a code, a
\* category and a retryable flag (and with them the userMessage and the
\* suggestions of its catalog record).
C32_FailureCarriesError ==
  (RunReturned /\ ~main.result.success) =>
    /\ main.result.error # NoError
    /\ main.result.error \in AttestationErrorCode
    /\ ErrCategory(main.result.error) \in
         {"verification", "authentication", "authorization", "configuration"}
    /\ ErrRetryable(main.result.error) \in BOOLEAN


\* retryable agrees with the category of the record of code
FollowsTaxonomy(code) ==
  /\ ErrCategory(code) \in {"authorization", "configuration"} => ~ErrRetryable(code)
  /\ ErrCategory(code) = "verification" => ErrRetryable(code)

\* C33: the retry policy of the catalog follows the taxonomy.  Every record
\* whose category is authorization or configuration has retryable = FALSE, and
\* every record whose category is verification has retryable = TRUE; so does,
\* in particular, the error of any result run() hands to its caller.
C33_CatalogFollowsTaxonomy ==
  /\ main.result.error \in AttestationErrorCode => FollowsTaxonomy(main.result.error)
  /\ \A code \in AttestationErrorCode : FollowsTaxonomy(code)


C35_RunTerminates ==
  /\ [](main.pc # "threw")
  /\ <>(main.pc = "returned")


CancelledFromOutside(c) == calls[c].timer = "cleared"

\* C36: the deadline holds under external cancellation.  No call of
\* executeWithTimeout is still in flight after its deadline and none has
\* returned later than its deadline, whatever its operation does and however
\* cancelAllOperations and cancelOperation are called meanwhile; and a call
\* that was cancelled from outside has not returned success=true.
C36_DeadlineUnderCancellation ==
  \A c \in CallIds :
    /\ calls[c].st = "active" => now <= Deadline(calls[c])
    /\ calls[c].st = "returned" => calls[c].retAt <= Deadline(calls[c])
    /\ calls[c].st = "returned" /\ CancelledFromOutside(c) => ~calls[c].res.success


\* C37: run() returns success=true only if the compute job status it bundles
\* is "completed"; a compute job that ended failed, cancelled or timeout never
\* yields a successful result.
C37_SuccessMeansCompleted ==
  (RunReturned /\ main.result.success) => main.result.value.status = "completed"


\* C38: run() returns success=true only if the compute collaborator accepted
\* the job and reported it completed.  When the collaborator answered none of
\* the requests of the run (health check, submission, status fetches), run()
\* does not return a successful result with a completed compute job.
C38_NoSuccessWithoutCollaborator ==
  (RunReturned /\ ~hist.answered) =>
    ~(main.result.success /\ main.result.value.status = "completed")


\* A run that has returned in which the recorder worked, the subject id and
\* the attestation service were in order, no collaborator answered negatively,
\* no timer fired, one attempt was made and at most one status fetch issued.
PromptAndPositiveRun ==
  /\ RunReturned
  /\ Len(hist.handed) = 1
  /\ cfg.initError = NoError /\ cfg.didOk
  /\ ~hist.refused
  /\ hist.firedActive = {}
  /\ hist.attempts = 1
  /\ hist.fetches <= 1

\* C39: short job budgets still work.  For every positive job timeout, once a
\* compute phase polls, the polling bound derived from the job timeout is
\* positive and not longer than the job timeout; and a run with a valid
\* attestation and a compute job completed on the first status fetch, both
\* well before the job timeout, returns success.
C39_ShortBudgetsWork ==
  /\ \A a \in AttemptIdx :
       (cfg.timeoutMs > 0 /\ poll[a].pc # "idle") =>
         /\ C2DServiceTimeoutMs(cfg.timeoutMs) > 0
         /\ C2DServiceTimeoutMs(cfg.timeoutMs) <= cfg.timeoutMs
  /\ PromptAndPositiveRun => main.result.success

====
